---- MODULE Spec2Model ----
(***************************************************************************)
(* The stateful monitoring engine of responsible-ai-demo: AlertManager     *)
(* (src/app/alerts.py), DriftDetector (src/app/drift_detector.py) and      *)
(* FeedbackProcessor (src/app/feedback.py), with the thresholds file they  *)
(* share.                                                                  *)
(*                                                                         *)
(* Reals (scores, thresholds) are fixed point, in ten-thousandths: 0.7 is  *)
(* 7000.  An Optional value is a sequence of length 0 (None) or 1.         *)
(* now counts the reads of datetime.utcnow(): a timestamp is the value of  *)
(* that logical clock at the read.                                         *)
(***************************************************************************)
EXTENDS Integers, Sequences, FiniteSets

VARIABLES
    \* AlertManager (alerts.py:36-49)
    alert_history, consecutive_failures, alert_thresholds,
    \* DriftDetector (drift_detector.py:40-55)
    baseline, thresholds, response_embeddings, input_embeddings,
    quality_scores, drift_detected, drift_history,
    \* FeedbackProcessor (feedback.py:25-26)
    feedback_history, reference_dataset,
    \* the feedback log /app/data/feedback.jsonl, and which of the two files
    \* "feedback_log" and "thresholds" cannot be written
    feedback_log, storage,
    \* the chat requests the server has accepted, in order of arrival, each
    \* with how far its handler has run
    requests,
    \* the environment: /app/config/thresholds.json, the module-level
    \* embedding_model, the clock, and the number of writes of the file
    thresholds_file, embedding_model, now, threshold_writes,
    \* the notification channels: which of the optional ones are configured
    \* (SLACK_WEBHOOK_URL; ALERT_EMAIL with SMTP_USER and SMTP_PASSWORD) and
    \* which are failing; and the steps of the most recent _send_alert
    channels, attempts,
    \* the last operation called, with its arguments, and what it returned
    call, ret,
    \* history variables: every relevance score check_quality_alert has
    \* compared, and every item ever appended to each bounded collection
    relevance_obs, inserted

am_vars == <<alert_history, consecutive_failures, alert_thresholds,
             channels, attempts>>
dd_vars == <<baseline, thresholds, response_embeddings, input_embeddings,
             quality_scores, drift_detected, drift_history>>
fp_vars == <<feedback_history, reference_dataset, feedback_log, storage>>
env_vars == <<thresholds_file, embedding_model, requests>>
vars == <<am_vars, dd_vars, fp_vars, env_vars, now, threshold_writes,
          call, ret, relevance_obs, inserted>>

None == <<>>
Some(v) == <<v>>

Abs(x) == IF x < 0 THEN 0 - x ELSE x
Min(a, b) == IF a <= b THEN a ELSE b
Max(a, b) == IF a >= b THEN a ELSE b

\* the sum of a list, by halves
RECURSIVE SumSeq(_)
SumSeq(s) ==
    IF s = <<>> THEN 0
    ELSE IF Len(s) = 1 THEN s[1]
    ELSE LET half == Len(s) \div 2
         IN  SumSeq(SubSeq(s, 1, half)) + SumSeq(SubSeq(s, half + 1, Len(s)))

\* list(xs)[-n:] for n >= 1: the last min(n, len) items
LastN(s, n) == SubSeq(s, Max(1, Len(s) - n + 1), Len(s))

----------------------------------------------------------------------------
(* Program constants *)

ALERT_HISTORY_MAXLEN == 100
RELEVANCE_THRESHOLD == 7000
QUALITY_THRESHOLD == 6000
DRIFT_THRESHOLD == 3000
CONSECUTIVE_FAILURES_REQUIRED == 10
TOXICITY_THRESHOLD == 3000
HALLUCINATION_THRESHOLD == 4000
FEEDBACK_HISTORY_MAXLEN == 500
REFERENCE_DATASET_MAX == 100
\* the adjustment factors 0.95 and 1.02, in hundredths
LOW_RATING_ADJUSTMENT == 95
HIGH_RATING_ADJUSTMENT == 102
\* the clamp range [0.3, 0.95] and the smallest change written, 0.001
THRESHOLD_MIN == 3000
THRESHOLD_MAX == 9500
MIN_CHANGE == 10
\* DriftDetector's defaults when the thresholds file is absent
DEFAULT_DRIFT_THRESHOLD == 3000
DEFAULT_QUALITY_THRESHOLD == 6000
DEFAULT_EMBEDDING_DISTANCE_THRESHOLD == 4000
WINDOW_MAXLEN == 100
\* check_toxicity_alert: text[:100]
PREVIEW_LENGTH == 100
\* detect_quality_drift: the samples needed, and the recent window
MIN_QUALITY_SAMPLES == 10
RECENT_SAMPLES == 10

----------------------------------------------------------------------------
(* Bounds of the model *)

\* check_quality_alert is explored while fewer than MaxObs relevance
\* scores have been compared and fewer than MaxAlerts alerts were raised
MaxObs == 12
MaxAlerts == 3
\* submit_feedback with any input is explored for MaxSubmits submissions,
\* the feedback loop for MaxLoopSubmits submissions and MaxLoopChecks
\* alert checks, repeated submissions of one rating for MaxRepeats
MaxSubmits == 2
MaxLoopSubmits == 2
MaxLoopChecks == 2
MaxRepeats == 62
\* detect_quality_drift alone is explored for MaxQuality scores
MaxQuality == 12
\* the drift checks together: embedding checks and quality scores
MaxEmbeds == 2
MaxDriftScores == 11
\* the drift, toxicity and hallucination checks raise MaxCheckAlerts alerts
MaxCheckAlerts == 1
\* feedback is submitted MaxRecords times to processors with failing files
MaxRecords == 2
\* texts embedded against a baseline loaded from a file
MaxLoaded == 3
\* the status counts the last RECENT_EVENTS events; a run records
\* EventsExtra events more than that, with up to EventsExtra checks that
\* detect nothing
RECENT_EVENTS == 20
EventsExtra == 1
\* alerts dispatched in a run that mixes the four checks of the manager
MaxKinds == 5
\* feedback submissions and embedding checks of each kind in a run that
\* adapts the thresholds file under a running detector
MaxAdaptations == 2
MaxThresholdChecks == 1
\* entries added to each of the three histories before they are read
MaxHistory == 2
\* the clock up to which baselines are set and texts checked against them
MaxBaselineClock == 4
\* chat requests in flight together, with MaxChatFeedback feedback
\* submissions between their steps
MaxRequests == 2
MaxChatFeedback == 2
\* the first MaxStatMixed alerts of a long run are of either type, and the
\* run goes StatsExtra alerts beyond the capacity of the history
MaxStatMixed == 3
StatsExtra == 1
\* each bounded collection is filled to FillExtra items past its capacity
FillExtra == 2
\* detect_all_drifts is called while the clock has been read fewer than
\* MaxAllTime times
MaxAllTime == 3

----------------------------------------------------------------------------
(* collections.deque(maxlen=...).append *)

DequeAppendDropNewest(q, x, maxlen) ==
    IF Len(q) >= maxlen THEN q ELSE Append(q, x)

DequeAppend(q, x, maxlen) ==
    IF Len(q) >= maxlen THEN Append(Tail(q), x) ELSE Append(q, x)

Logged(coll, x) == [inserted EXCEPT ![coll] = Append(@, x)]

----------------------------------------------------------------------------
(* AlertManager *)

AlertManagerInit ==
    /\ alert_history = <<>>
    /\ consecutive_failures = [relevance |-> 0, coherence |-> 0, quality |-> 0]
    /\ alert_thresholds =
         [relevance_threshold |-> RELEVANCE_THRESHOLD,
          quality_threshold |-> QUALITY_THRESHOLD,
          drift_threshold |-> DRIFT_THRESHOLD,
          consecutive_failures |-> CONSECUTIVE_FAILURES_REQUIRED,
          toxicity_threshold |-> TOXICITY_THRESHOLD,
          hallucination_threshold |-> HALLUCINATION_THRESHOLD]

\* one step of _send_alert: a channel tried, and whether the attempt failed
Attempt(channel) ==
    [channel |-> channel, failed |-> channel \in channels.failing]

RECURSIVE UpToFirstFailure(_)
UpToFirstFailure(steps) ==
    IF steps = <<>> THEN <<>>
    ELSE IF Head(steps).failed THEN <<Head(steps)>>
    ELSE <<Head(steps)>> \o UpToFirstFailure(Tail(steps))

ChannelAttemptsStopAtFailure ==
    UpToFirstFailure(
        <<Attempt("console"), Attempt("file")>>
        \o (IF "slack" \in channels.configured
            THEN <<Attempt("slack")>> ELSE <<>>)
        \o (IF "email" \in channels.configured
            THEN <<Attempt("email")>> ELSE <<>>))

\* the channels of _send_alert in order; each handles its own failure
\* (logging for the console, try/except in the other three)
ChannelAttempts ==
    <<Attempt("console"), Attempt("file")>>
    \o (IF "slack" \in channels.configured
        THEN <<Attempt("slack")>> ELSE <<>>)
    \o (IF "email" \in channels.configured
        THEN <<Attempt("email")>> ELSE <<>>)

\* _send_alert: the alert joins the bounded history, then the channels are
\* tried; no channel changes the state of the manager
_send_alert(alert) ==
    /\ alert_history' = DequeAppend(alert_history, alert, ALERT_HISTORY_MAXLEN)
    /\ inserted' = Logged("alert_history", alert)
    /\ attempts' = <<[channel |-> "history", failed |-> FALSE]>>
                     \o ChannelAttempts

RelevanceFailuresResetOnAbsent(relevance) ==
    IF relevance = None THEN 0
    ELSE IF relevance[1] < alert_thresholds.relevance_threshold
         THEN consecutive_failures.relevance + 1
         ELSE 0

\* the relevance branch of check_quality_alert: the counter after the call
RelevanceFailuresNoReset(relevance) ==
    IF relevance = None THEN consecutive_failures.relevance
    ELSE IF relevance[1] < alert_thresholds.relevance_threshold
         THEN consecutive_failures.relevance + 1
         ELSE consecutive_failures.relevance

RelevanceFailuresRestartAfterFiring(relevance) ==
    IF relevance = None THEN consecutive_failures.relevance
    ELSE IF relevance[1] < alert_thresholds.relevance_threshold
         THEN IF consecutive_failures.relevance
                   >= alert_thresholds.consecutive_failures
              THEN 1
              ELSE consecutive_failures.relevance + 1
         ELSE 0

RelevanceFailures(relevance) ==
    IF relevance = None THEN consecutive_failures.relevance
    ELSE IF relevance[1] < alert_thresholds.relevance_threshold
         THEN consecutive_failures.relevance + 1
         ELSE 0

RelevanceAlertEarly(relevance, failures) ==
    IF relevance # None /\ failures >= alert_thresholds.consecutive_failures - 1
    THEN Some([type |-> "quality_degradation", severity |-> "high",
               metric |-> "relevance", value |-> relevance[1],
               threshold |-> alert_thresholds.relevance_threshold,
               consecutive_failures |-> failures,
               message |-> <<"Relevance below threshold for", failures,
                             "consecutive requests">>])
    ELSE None

RelevanceAlert(relevance, failures) ==
    IF relevance # None /\ failures >= alert_thresholds.consecutive_failures
    THEN Some([type |-> "quality_degradation", severity |-> "high",
               metric |-> "relevance", value |-> relevance[1],
               threshold |-> alert_thresholds.relevance_threshold,
               consecutive_failures |-> failures,
               message |-> <<"Relevance below threshold for", failures,
                             "consecutive requests">>])
    ELSE None

OverallQualityAlertKeepsFirst(overall_quality, alert) ==
    IF alert = None /\ overall_quality # None
       /\ overall_quality[1] < alert_thresholds.quality_threshold
    THEN Some([type |-> "quality_degradation", severity |-> "medium",
               metric |-> "overall_quality", value |-> overall_quality[1],
               threshold |-> alert_thresholds.quality_threshold,
               message |-> <<"Overall quality below threshold:",
                             overall_quality[1]>>])
    ELSE alert

OverallQualityAlertHigh(overall_quality, alert) ==
    IF overall_quality # None
       /\ overall_quality[1] < alert_thresholds.quality_threshold
    THEN Some([type |-> "quality_degradation", severity |-> "high",
               metric |-> "overall_quality", value |-> overall_quality[1],
               threshold |-> alert_thresholds.quality_threshold,
               message |-> <<"Overall quality below threshold:",
                             overall_quality[1]>>])
    ELSE alert

\* the overall-quality branch: it overwrites the alert of the first branch
OverallQualityAlert(overall_quality, alert) ==
    IF overall_quality # None
       /\ overall_quality[1] < alert_thresholds.quality_threshold
    THEN Some([type |-> "quality_degradation", severity |-> "medium",
               metric |-> "overall_quality", value |-> overall_quality[1],
               threshold |-> alert_thresholds.quality_threshold,
               message |-> <<"Overall quality below threshold:",
                             overall_quality[1]>>])
    ELSE alert

\* evaluation = [evaluations_available, scores: [relevance: Optional],
\*               overall_quality: Optional]
check_quality_alert(evaluation) ==
    /\ call' = [op |-> "check_quality_alert", evaluation |-> evaluation]
    /\ UNCHANGED <<alert_thresholds, channels, dd_vars, fp_vars, env_vars,
                   threshold_writes>>
    /\ IF ~evaluation.evaluations_available
       THEN /\ ret' = None
            /\ UNCHANGED <<alert_history, consecutive_failures, now,
                           relevance_obs, inserted, attempts>>
       ELSE LET relevance == evaluation.scores.relevance
                failures == RelevanceFailures(relevance)
                alert == OverallQualityAlert(evaluation.overall_quality,
                             RelevanceAlert(relevance, failures))
            IN  /\ consecutive_failures' =
                     [consecutive_failures EXCEPT !.relevance = failures]
                /\ relevance_obs' = relevance_obs \o relevance
                /\ IF alert # None
                   THEN LET stamped == [f \in DOMAIN alert[1] \cup {"timestamp"}
                                          |-> IF f = "timestamp" THEN now
                                              ELSE alert[1][f]]
                        IN  /\ now' = now + 1
                            /\ _send_alert(stamped)
                            /\ ret' = Some(stamped)
                   ELSE /\ ret' = None
                        /\ UNCHANGED <<alert_history, now, inserted,
                                       attempts>>

----------------------------------------------------------------------------
(* DriftDetector *)

\* embedding_model.encode: a text's embedding.  The vectors stand for the
\* sentence transformer's: fixed dimension, the same for the same text.
Embed(text) ==
    CASE text = "t0" -> <<4, 1>>
      [] text = "t1" -> <<3, 2>>
      [] OTHER -> <<0 - 1, 3>>

Dot(a, b) == a[1] * b[1] + a[2] * b[2]

RECURSIVE VecSum(_)
VecSum(vs) ==
    IF vs = <<>> THEN <<0, 0>>
    ELSE <<Head(vs)[1] + VecSum(Tail(vs))[1],
           Head(vs)[2] + VecSum(Tail(vs))[2]>>

\* np.mean(embedding_model.encode(texts), axis=0): the centroid sum / count,
\* kept as that exact fraction
Centroid(texts) ==
    [sum |-> VecSum([i \in 1..Len(texts) |-> Embed(texts[i])]),
     count |-> Len(texts)]

RECURSIVE GCD(_, _)
GCD(a, b) == IF b = 0 THEN a ELSE GCD(b, a % b)

\* dot / sqrt(squares) < num / den, exactly (squares > 0, den > 0)
CosineBelow(dot, squares, num, den) ==
    IF dot < 0 /\ num >= 0 THEN TRUE
    ELSE IF dot >= 0 /\ num <= 0 THEN FALSE
    ELSE IF dot >= 0 THEN dot * dot * den * den < num * num * squares
    ELSE dot * dot * den * den > num * num * squares

\* 1 - cosine_similarity([current], [centroid]) > threshold.  The cosine
\* does not depend on the centroid's count; 1 - threshold is reduced to
\* lowest terms.
DistanceExceeds(current, centroid, threshold) ==
    LET g == GCD(10000, Abs(10000 - threshold))
    IN  CosineBelow(Dot(current, centroid.sum),
                    Dot(current, current) * Dot(centroid.sum, centroid.sum),
                    (10000 - threshold) \div g, 10000 \div g)

\* the distance itself is irrational: a result carries the cosine it is
\* computed from, as dot product and product of squared norms
Distance(current, centroid) ==
    [dot |-> Dot(current, centroid.sum),
     squares |-> Dot(current, current) * Dot(centroid.sum, centroid.sum)]

\* dict.get(key, default)
Get(dict, key, default) == IF key \in DOMAIN dict THEN dict[key] ELSE default

\* _load_baseline when no baseline file exists
NoBaseline ==
    [baseline_embedding |-> None, baseline_timestamp |-> None,
     baseline_samples |-> <<>>, sample_count |-> None,
     input_baseline_embedding |-> None, input_sample_count |-> None]

\* _load_thresholds: the file's content when it exists, else the defaults
_load_thresholds(file) ==
    IF file # None THEN file[1]
    ELSE [drift_threshold |-> DEFAULT_DRIFT_THRESHOLD,
          quality_threshold |-> DEFAULT_QUALITY_THRESHOLD,
          embedding_distance_threshold |-> DEFAULT_EMBEDDING_DISTANCE_THRESHOLD]

SelfThresholdsReloaded == _load_thresholds(thresholds_file)

\* self.thresholds: the dict that __init__ loaded
SelfThresholds == thresholds

\* The detector's mutable state with the clock, as one value, so that the
\* checks compose: each check maps a state to the state after it and its
\* result.
Detector ==
    [response_embeddings |-> response_embeddings,
     input_embeddings |-> input_embeddings,
     quality_scores |-> quality_scores,
     drift_detected |-> drift_detected,
     drift_history |-> drift_history,
     now |-> now, inserted |-> inserted]

Becomes(d) ==
    /\ response_embeddings' = d.response_embeddings
    /\ input_embeddings' = d.input_embeddings
    /\ quality_scores' = d.quality_scores
    /\ drift_detected' = d.drift_detected
    /\ drift_history' = d.drift_history
    /\ now' = d.now
    /\ inserted' = d.inserted

RecordedAlways(d, flag, result) ==
    [d EXCEPT !.drift_detected[flag] = @ \/ result.drift_detected,
              !.drift_history = Append(@, result),
              !.now = @ + 1]

RecordedNotSticky(d, flag, result) ==
    IF result.drift_detected
    THEN [d EXCEPT !.drift_detected[flag] = TRUE,
                   !.drift_history = Append(@, result),
                   !.now = @ + 1]
    ELSE [d EXCEPT !.drift_detected[flag] = FALSE, !.now = @ + 1]

\* the end of a determination: the sticky flag and the event, on detection
Recorded(d, flag, result) ==
    IF result.drift_detected
    THEN [d EXCEPT !.drift_detected[flag] = TRUE,
                   !.drift_history = Append(@, result),
                   !.now = @ + 1]
    ELSE [d EXCEPT !.now = @ + 1]

\* the state the except branch returns in when cosine_similarity raised:
\* the embedding was appended to the window before the distance was computed
AfterFailedDistance(d, stored) == stored

\* detect_response_drift and detect_data_drift: window and flag are
\* "response_embeddings" and "response_drift", or "input_embeddings" and
\* "data_drift"
EmbeddingDrift(d, text, centroid, window, flag, threshold, missing) ==
    IF ~embedding_model
    THEN [d |-> d, result |-> [drift_detected |-> FALSE,
                               reason |-> "Embedding model not available"]]
    ELSE IF centroid = None
    THEN [d |-> d, result |-> [drift_detected |-> FALSE, reason |-> missing]]
    ELSE LET current == Embed(text)
             stored == [d EXCEPT
                         ![window] = DequeAppend(@, current, WINDOW_MAXLEN),
                         !.inserted[window] = Append(@, current)]
             result == [drift_detected |->
                            DistanceExceeds(current, centroid[1], threshold),
                        distance |-> Distance(current, centroid[1]),
                        threshold |-> threshold,
                        timestamp |-> d.now,
                        type |-> flag]
         IN  IF Len(current) # Len(centroid[1].sum)
             THEN [d |-> AfterFailedDistance(d, stored),
                   result |-> [drift_detected |-> FALSE,
                               error |-> "Incompatible dimension"]]
             ELSE [d |-> Recorded(stored, flag, result), result |-> result]

ResponseDrift(d, response_text) ==
    EmbeddingDrift(d, response_text, baseline.baseline_embedding,
                   "response_embeddings", "response_drift",
                   Get(SelfThresholds, "embedding_distance_threshold",
                       DEFAULT_EMBEDDING_DISTANCE_THRESHOLD),
                   "No baseline set")

DataDriftOnResponseBaseline(d, input_text) ==
    EmbeddingDrift(d, input_text, baseline.baseline_embedding,
                   "input_embeddings", "data_drift",
                   Get(SelfThresholds, "drift_threshold",
                       DEFAULT_DRIFT_THRESHOLD),
                   "No input baseline set")

DataDrift(d, input_text) ==
    EmbeddingDrift(d, input_text, baseline.input_baseline_embedding,
                   "input_embeddings", "data_drift",
                   Get(SelfThresholds, "drift_threshold",
                       DEFAULT_DRIFT_THRESHOLD),
                   "No input baseline set")

\* np.mean(xs), kept as the exact fraction sum / count
Mean(xs) == [sum |-> SumSeq(xs), count |-> Len(xs)]

InsufficientSamplesBelowNine(scores) == Len(scores) < MIN_QUALITY_SAMPLES - 1

InsufficientSamples(scores) == Len(scores) < MIN_QUALITY_SAMPLES

QualityDetectedAbsoluteOnly(recent_avg, overall_avg, threshold) ==
    recent_avg.sum < threshold * recent_avg.count

\* recent_avg < threshold or recent_avg < (overall_avg * 0.8), on fractions
QualityDetected(recent_avg, overall_avg, threshold) ==
    \/ recent_avg.sum < threshold * recent_avg.count
    \/ 5 * recent_avg.sum * overall_avg.count
         < 4 * overall_avg.sum * recent_avg.count

\* detect_quality_drift; quality_score is Optional
QualityDrift(d, quality_score) ==
    IF quality_score = None
    THEN [d |-> d, result |-> [drift_detected |-> FALSE,
                               reason |-> "No quality score provided"]]
    ELSE LET stored == [d EXCEPT
                         !.quality_scores =
                             DequeAppend(@, quality_score[1], WINDOW_MAXLEN),
                         !.inserted.quality_scores =
                             Append(@, quality_score[1])]
             scores == stored.quality_scores
         IN  IF InsufficientSamples(scores)
             THEN [d |-> stored,
                   result |-> [drift_detected |-> FALSE,
                               reason |-> "Insufficient samples",
                               sample_count |-> Len(scores)]]
             ELSE LET recent_avg == Mean(LastN(scores, RECENT_SAMPLES))
                      overall_avg == Mean(scores)
                      threshold == Get(SelfThresholds, "quality_threshold",
                                       DEFAULT_QUALITY_THRESHOLD)
                      result ==
                          [drift_detected |->
                               QualityDetected(recent_avg, overall_avg,
                                               threshold),
                           recent_average |-> recent_avg,
                           overall_average |-> overall_avg,
                           threshold |-> threshold,
                           timestamp |-> d.now,
                           type |-> "quality_drift"]
                  IN  [d |-> Recorded(stored, "quality_drift", result),
                       result |-> result]

dd_frame == <<am_vars, fp_vars, env_vars, threshold_writes, relevance_obs,
              baseline, thresholds>>

detect_response_drift(response_text) ==
    LET check == ResponseDrift(Detector, response_text)
    IN  /\ call' = [op |-> "detect_response_drift", text |-> response_text]
        /\ Becomes(check.d)
        /\ ret' = Some(check.result)
        /\ UNCHANGED dd_frame

detect_data_drift(input_text) ==
    LET check == DataDrift(Detector, input_text)
    IN  /\ call' = [op |-> "detect_data_drift", text |-> input_text]
        /\ Becomes(check.d)
        /\ ret' = Some(check.result)
        /\ UNCHANGED dd_frame

detect_quality_drift(quality_score) ==
    LET check == QualityDrift(Detector, quality_score)
    IN  /\ call' = [op |-> "detect_quality_drift",
                    quality_score |-> quality_score]
        /\ Becomes(check.d)
        /\ ret' = Some(check.result)
        /\ UNCHANGED dd_frame

\* results.get(key, {}).get("drift_detected", False), as a truth value
SubDetected(results, key) ==
    /\ key \in DOMAIN results
    /\ "drift_detected" \in DOMAIN results[key]
    /\ results[key].drift_detected

AnyDriftDetectedIgnoresData(results) ==
    \/ SubDetected(results, "response_drift")
    \/ SubDetected(results, "quality_drift")

\* any([...get("drift_detected", False) ...])
AnyDriftDetected(results) ==
    \/ SubDetected(results, "response_drift")
    \/ SubDetected(results, "data_drift")
    \/ SubDetected(results, "quality_drift")

\* results[key] = value on a dict
With(results, key, value) ==
    [k \in DOMAIN results \cup {key} |->
        IF k = key THEN value ELSE results[k]]

AllDriftsAbsentAsZero(d, input_text, response_text, quality_score) ==
    LET stamped == [d EXCEPT !.now = @ + 1]
        response == ResponseDrift(stamped, response_text)
        data == DataDrift(response.d, input_text)
        quality == QualityDrift(data.d, IF quality_score # None
                                        THEN quality_score ELSE Some(0))
        started == [timestamp |-> d.now,
                    response_drift |-> response.result,
                    data_drift |-> data.result,
                    any_drift_detected |-> FALSE]
        results == With(started, "quality_drift", quality.result)
    IN  [d |-> quality.d,
         result |-> [results EXCEPT
                       !.any_drift_detected = AnyDriftDetected(results)]]

\* detect_all_drifts: the clock is read, then the response check, the data
\* check and, with a score, the quality check run in that order
AllDrifts(d, input_text, response_text, quality_score) ==
    LET stamped == [d EXCEPT !.now = @ + 1]
        response == ResponseDrift(stamped, response_text)
        data == DataDrift(response.d, input_text)
        quality == IF quality_score # None
                   THEN QualityDrift(data.d, quality_score)
                   ELSE [d |-> data.d]
        started == [timestamp |-> d.now,
                    response_drift |-> response.result,
                    data_drift |-> data.result,
                    any_drift_detected |-> FALSE]
        results == IF quality_score # None
                   THEN With(started, "quality_drift", quality.result)
                   ELSE started
    IN  [d |-> quality.d,
         result |-> [results EXCEPT
                       !.any_drift_detected = AnyDriftDetected(results)]]

detect_all_drifts(input_text, response_text, quality_score) ==
    LET check == AllDrifts(Detector, input_text, response_text, quality_score)
    IN  /\ call' = [op |-> "detect_all_drifts", input_text |-> input_text,
                    response_text |-> response_text,
                    quality_score |-> quality_score]
        /\ Becomes(check.d)
        /\ ret' = Some(check.result)
        /\ UNCHANGED dd_frame

\* set_baseline; responses is a non-empty list, inputs an Optional list
NewBaselineKeepsInputs(responses, inputs) ==
    [baseline_embedding |-> Some(Centroid(responses)),
     baseline_timestamp |-> Some(now),
     baseline_samples |-> LET n == Min(5, Len(responses))
                          IN  SubSeq(responses, 1, n),
     sample_count |-> Some(Len(responses)),
     input_baseline_embedding |->
         IF inputs # None /\ inputs[1] # <<>>
         THEN Some(Centroid(inputs[1]))
         ELSE baseline.input_baseline_embedding,
     input_sample_count |->
         IF inputs # None /\ inputs[1] # <<>>
         THEN Some(Len(inputs[1])) ELSE baseline.input_sample_count]

\* self.baseline = {...}: a new dict, with the input fields only when
\* inputs is a non-empty list
NewBaseline(responses, inputs) ==
    [baseline_embedding |-> Some(Centroid(responses)),
     baseline_timestamp |-> Some(now),
     baseline_samples |-> LET n == Min(5, Len(responses))
                          IN  SubSeq(responses, 1, n),
     sample_count |-> Some(Len(responses)),
     input_baseline_embedding |->
         IF inputs # None /\ inputs[1] # <<>>
         THEN Some(Centroid(inputs[1])) ELSE None,
     input_sample_count |->
         IF inputs # None /\ inputs[1] # <<>>
         THEN Some(Len(inputs[1])) ELSE None]

set_baseline(responses, inputs) ==
    /\ call' = [op |-> "set_baseline", responses |-> responses,
                inputs |-> inputs]
    /\ ret' = None
    /\ UNCHANGED <<am_vars, fp_vars, env_vars, threshold_writes,
                   relevance_obs, thresholds, response_embeddings,
                   input_embeddings, quality_scores, drift_detected,
                   drift_history, inserted>>
    /\ IF ~embedding_model
       THEN UNCHANGED <<baseline, now>>
       ELSE /\ now' = now + 1
            /\ baseline' = NewBaseline(responses, inputs)

DriftDetectedAfterReset ==
    [response_drift |-> FALSE, data_drift |-> FALSE, quality_drift |-> FALSE]

DriftHistoryAfterResetCleared == <<>>

DriftHistoryAfterReset == drift_history

reset_drift_state ==
    /\ call' = [op |-> "reset_drift_state"]
    /\ ret' = None
    /\ drift_detected' = DriftDetectedAfterReset
    /\ drift_history' = DriftHistoryAfterReset
    /\ UNCHANGED <<am_vars, fp_vars, env_vars, threshold_writes,
                   relevance_obs, baseline, thresholds, response_embeddings,
                   input_embeddings, quality_scores, now, inserted>>

----------------------------------------------------------------------------
(* AlertManager: the drift, toxicity and hallucination checks *)

\* dict.get(key), the value or None
GetOpt(dict, key) == IF key \in DOMAIN dict THEN Some(dict[key]) ELSE None

\* an exception leaving the call
Raised(exception) == <<[raised |-> exception]>>

am_frame == <<consecutive_failures, alert_thresholds, channels, dd_vars,
              fp_vars, env_vars, threshold_writes, relevance_obs>>

NoAlert == UNCHANGED <<alert_history, now, inserted, attempts>>

DriftDetailsOfAll(drift_results) ==
    (IF "response_drift" \in DOMAIN drift_results
     THEN <<[drift_type |-> "response",
             distance |-> GetOpt(drift_results.response_drift, "distance"),
             threshold |-> GetOpt(drift_results.response_drift, "threshold")]>>
     ELSE <<>>)
    \o (IF "data_drift" \in DOMAIN drift_results
        THEN <<[drift_type |-> "data",
                distance |-> GetOpt(drift_results.data_drift, "distance"),
                threshold |-> GetOpt(drift_results.data_drift, "threshold")]>>
        ELSE <<>>)
    \o (IF "quality_drift" \in DOMAIN drift_results
        THEN <<[drift_type |-> "quality",
                recent_avg |->
                    GetOpt(drift_results.quality_drift, "recent_average"),
                overall_avg |->
                    GetOpt(drift_results.quality_drift, "overall_average")]>>
        ELSE <<>>)

\* alert["details"]: an entry for each sub-result that detected drift
DriftDetails(drift_results) ==
    (IF SubDetected(drift_results, "response_drift")
     THEN <<[drift_type |-> "response",
             distance |-> GetOpt(drift_results.response_drift, "distance"),
             threshold |-> GetOpt(drift_results.response_drift, "threshold")]>>
     ELSE <<>>)
    \o (IF SubDetected(drift_results, "data_drift")
        THEN <<[drift_type |-> "data",
                distance |-> GetOpt(drift_results.data_drift, "distance"),
                threshold |-> GetOpt(drift_results.data_drift, "threshold")]>>
        ELSE <<>>)
    \o (IF SubDetected(drift_results, "quality_drift")
        THEN <<[drift_type |-> "quality",
                recent_avg |->
                    GetOpt(drift_results.quality_drift, "recent_average"),
                overall_avg |->
                    GetOpt(drift_results.quality_drift, "overall_average")]>>
        ELSE <<>>)

check_drift_alert(drift_results) ==
    /\ call' = [op |-> "check_drift_alert", drift_results |-> drift_results]
    /\ UNCHANGED am_frame
    /\ IF ~Get(drift_results, "any_drift_detected", FALSE)
       THEN /\ ret' = None
            /\ NoAlert
       ELSE LET details == DriftDetails(drift_results)
                alert == [type |-> "drift_detected", severity |-> "high",
                          timestamp |-> now, details |-> details,
                          message |-> <<"Drift detected:",
                                        [i \in 1..Len(details) |->
                                            details[i].drift_type]>>]
            IN  /\ now' = now + 1
                /\ _send_alert(alert)
                /\ ret' = Some(alert)

\* text[:100]
Preview(text) == SubSeq(text, 1, Min(PREVIEW_LENGTH, Len(text)))

ExceedsOrEquals(score, threshold) == score >= threshold

\* score > threshold
Exceeds(score, threshold) == score > threshold

\* check_toxicity_alert; score is Optional, and None > 0.3 raises TypeError
check_toxicity_alert(text, score) ==
    /\ call' = [op |-> "check_toxicity_alert", text |-> text, score |-> score]
    /\ UNCHANGED am_frame
    /\ IF score = None
       THEN /\ ret' = Raised("TypeError")
            /\ NoAlert
       ELSE IF Exceeds(score[1], alert_thresholds.toxicity_threshold)
       THEN LET alert == [type |-> "toxicity", severity |-> "critical",
                          score |-> score[1],
                          threshold |-> alert_thresholds.toxicity_threshold,
                          text_preview |-> Preview(text),
                          timestamp |-> now,
                          message |-> <<"High toxicity detected:", score[1]>>]
            IN  /\ now' = now + 1
                /\ _send_alert(alert)
                /\ ret' = Some(alert)
       ELSE /\ ret' = None
            /\ NoAlert

\* check_hallucination_alert; score is Optional
check_hallucination_alert(score) ==
    /\ call' = [op |-> "check_hallucination_alert", score |-> score]
    /\ UNCHANGED am_frame
    /\ IF score = None
       THEN /\ ret' = Raised("TypeError")
            /\ NoAlert
       ELSE IF Exceeds(score[1], alert_thresholds.hallucination_threshold)
       THEN LET alert == [type |-> "hallucination", severity |-> "high",
                          score |-> score[1],
                          threshold |->
                              alert_thresholds.hallucination_threshold,
                          timestamp |-> now,
                          message |-> <<"Potential hallucination detected:",
                                        score[1]>>]
            IN  /\ now' = now + 1
                /\ _send_alert(alert)
                /\ ret' = Some(alert)
       ELSE /\ ret' = None
            /\ NoAlert

----------------------------------------------------------------------------
(* The read operations *)

ReadOnlyButClock ==
    /\ now' = now + 1
    /\ UNCHANGED <<am_vars, dd_vars, fp_vars, env_vars, threshold_writes,
                   relevance_obs, inserted>>

\* get_drift_status and get_alert_statistics assign nothing
ReadOnly ==
    UNCHANGED <<am_vars, dd_vars, fp_vars, env_vars, now, threshold_writes,
                relevance_obs, inserted>>

\* len([d for d in events if d.get("drift_detected", False)])
CountDetected(events) ==
    Cardinality({i \in 1..Len(events) :
                    /\ "drift_detected" \in DOMAIN events[i]
                    /\ events[i].drift_detected})

DriftStatusRecentOfAll ==
    [drift_detected |-> drift_detected,
     recent_drift_events |-> CountDetected(drift_history),
     total_drift_events |-> Len(drift_history),
     sample_counts |-> [responses |-> Len(response_embeddings),
                        inputs |-> Len(input_embeddings),
                        quality_scores |-> Len(quality_scores)],
     baseline_status |->
         [response_baseline_set |-> baseline.baseline_embedding # None,
          input_baseline_set |-> baseline.input_baseline_embedding # None,
          baseline_age |-> baseline.baseline_timestamp]]

\* get_drift_status: the result
DriftStatus ==
    [drift_detected |-> drift_detected,
     recent_drift_events |-> CountDetected(LastN(drift_history, RECENT_EVENTS)),
     total_drift_events |-> Len(drift_history),
     sample_counts |-> [responses |-> Len(response_embeddings),
                        inputs |-> Len(input_embeddings),
                        quality_scores |-> Len(quality_scores)],
     baseline_status |->
         [response_baseline_set |-> baseline.baseline_embedding # None,
          input_baseline_set |-> baseline.input_baseline_embedding # None,
          baseline_age |-> baseline.baseline_timestamp]]

get_drift_status ==
    /\ call' = [op |-> "get_drift_status"]
    /\ ret' = Some(DriftStatus)
    /\ ReadOnly

\* by_type and by_severity: the count of alerts for each value of the field
CountBy(alerts, field) ==
    [v \in {alerts[i][field] : i \in 1..Len(alerts)} |->
        Cardinality({i \in 1..Len(alerts) : alerts[i][field] = v})]

AlertStatisticsAlwaysFour ==
    [total_alerts |-> Len(alert_history),
     by_type |-> CountBy(alert_history, "type"),
     by_severity |-> CountBy(alert_history, "severity"),
     recent_count |-> Len(LastN(alert_history, 10))]

\* get_alert_statistics: an empty history returns the total alone
AlertStatistics ==
    IF alert_history = <<>> THEN [total_alerts |-> 0]
    ELSE [total_alerts |-> Len(alert_history),
          by_type |-> CountBy(alert_history, "type"),
          by_severity |-> CountBy(alert_history, "severity"),
          recent_count |-> Len(LastN(alert_history, 10))]

get_alert_statistics ==
    /\ call' = [op |-> "get_alert_statistics"]
    /\ ret' = Some(AlertStatistics)
    /\ ReadOnly

\* xs[start:] of a Python list: a negative start counts from the end, and
\* -0 is 0, the start of the list
SliceFrom(xs, start) ==
    LET from == IF start < 0 THEN Max(0, Len(xs) + start)
                ELSE Min(start, Len(xs))
    IN  SubSeq(xs, from + 1, Len(xs))

\* list(self.alert_history)[-limit:]
get_alert_history(limit) ==
    /\ call' = [op |-> "get_alert_history", limit |-> limit]
    /\ ret' = Some(SliceFrom(alert_history, 0 - limit))
    /\ ReadOnly

\* self.drift_history[-limit:]
get_drift_history(limit) ==
    /\ call' = [op |-> "get_drift_history", limit |-> limit]
    /\ ret' = Some(SliceFrom(drift_history, 0 - limit))
    /\ ReadOnly

\* list(self.feedback_history)[-limit:]
get_recent_feedback(limit) ==
    /\ call' = [op |-> "get_recent_feedback", limit |-> limit]
    /\ ret' = Some(SliceFrom(feedback_history, 0 - limit))
    /\ ReadOnly

----------------------------------------------------------------------------
(* FeedbackProcessor *)

ThresholdKeyAnyType(feedback_type) ==
    CASE feedback_type = "relevance" -> <<"relevance_threshold">>
      [] feedback_type = "coherence" -> <<"coherence_threshold">>
      [] OTHER -> <<"quality_threshold">>

\* threshold_map.get(feedback_type)
ThresholdKey(feedback_type) ==
    CASE feedback_type = "quality" -> Some("quality_threshold")
      [] feedback_type = "relevance" -> Some("relevance_threshold")
      [] feedback_type = "coherence" -> Some("coherence_threshold")
      [] OTHER -> None

\* the adjustment factor, in hundredths; None for a neutral rating
Adjustment(rating) ==
    IF rating <= 2 THEN Some(LOW_RATING_ADJUSTMENT)
    ELSE IF rating >= 4 THEN Some(HIGH_RATING_ADJUSTMENT)
    ELSE None

\* The adaptation is computed in millionths, where the product of a stored
\* value (ten-thousandths) and a factor (hundredths) is exact.
Micro(v) == v * 100

ClampNoFloor(x) == Min(Micro(THRESHOLD_MAX), x)

\* max(0.3, min(0.95, x)), x in millionths
Clamp(x) == Max(Micro(THRESHOLD_MIN), Min(Micro(THRESHOLD_MAX), x))

\* abs(new_value - old_value) > 0.001 in binary64, both in millionths.  The
\* difference is exact in fixed point except where it is 0.001 itself, which
\* happens only against a clamp bound (old 0.299 or 0.301 against 0.3, 0.949
\* or 0.951 against 0.95): there binary64 computes 0.0010000000000000009,
\* and the test holds.
SignificantChange(new_value, old_value) ==
    Abs(new_value - old_value) > Micro(MIN_CHANGE)
    \/ Abs(new_value - old_value) = Micro(MIN_CHANGE)

Round3Exact(x) == {x \div 100}

\* round(x, 3) of x in millionths, in ten-thousandths: the results binary64
\* can give.  A decimal tie (x.xxx5) is decided by the binary representation
\* of the product and goes either way (round(0.33 * 0.95, 3) = 0.314,
\* round(0.35 * 0.95, 3) = 0.332).
Round3(x) ==
    LET down == (x \div 1000) * 10
        rest == x % 1000
    IN  IF 2 * rest < 1000 THEN {down}
        ELSE IF 2 * rest > 1000 THEN {down + 10}
        ELSE {down, down + 10}

\* a value of the file after _update_thresholds, with whether it was written
ThresholdUpdatesAlwaysWrite(feedback) ==
    LET key == ThresholdKey(feedback.feedback_type)
        adjustment == Adjustment(feedback.rating[1])
    IN  IF thresholds_file = None \/ adjustment = None \/ key = None
        THEN {[file |-> thresholds_file, written |-> FALSE]}
        ELSE IF key[1] \notin DOMAIN thresholds_file[1]
        THEN {[file |-> thresholds_file, written |-> FALSE]}
        ELSE LET old_value == thresholds_file[1][key[1]]
                 new_value == Clamp(old_value * adjustment[1])
             IN  {[file |-> Some([thresholds_file[1] EXCEPT ![key[1]] = r]),
                   written |-> TRUE] : r \in Round3(new_value)}

ThresholdUpdates(feedback) ==
    LET key == ThresholdKey(feedback.feedback_type)
        adjustment == Adjustment(feedback.rating[1])
    IN  IF thresholds_file = None \/ adjustment = None \/ key = None
        THEN {[file |-> thresholds_file, written |-> FALSE]}
        ELSE IF key[1] \notin DOMAIN thresholds_file[1]
        THEN {[file |-> thresholds_file, written |-> FALSE]}
        ELSE LET old_value == thresholds_file[1][key[1]]
                 new_value == Clamp(old_value * adjustment[1])
             IN  IF SignificantChange(new_value, Micro(old_value))
                    /\ "thresholds" \notin storage
                 THEN {[file |-> Some([thresholds_file[1]
                                         EXCEPT ![key[1]] = r]),
                        written |-> TRUE] : r \in Round3(new_value)}
                 ELSE {[file |-> thresholds_file, written |-> FALSE]}

_update_thresholds(feedback) ==
    \E u \in ThresholdUpdates(feedback) :
        /\ thresholds_file' = u.file
        /\ threshold_writes' = threshold_writes + (IF u.written THEN 1 ELSE 0)

AddedToReferenceDatasetUncapped(feedback) ==
    IF {"input", "output"} \subseteq DOMAIN feedback.metadata
    THEN Append(reference_dataset,
                [input |-> feedback.metadata["input"],
                 output |-> feedback.metadata["output"],
                 rating |-> feedback.rating,
                 timestamp |-> feedback.timestamp])
    ELSE reference_dataset

\* _add_to_reference_dataset: the dataset after the call
AddedToReferenceDataset(feedback) ==
    IF {"input", "output"} \subseteq DOMAIN feedback.metadata
    THEN LastN(Append(reference_dataset,
                      [input |-> feedback.metadata["input"],
                       output |-> feedback.metadata["output"],
                       rating |-> feedback.rating,
                       timestamp |-> feedback.timestamp]),
               REFERENCE_DATASET_MAX)
    ELSE reference_dataset

SavedFeedbackLost(feedback) == feedback_log

\* _save_feedback: the log after the call; a failed write is caught
SavedFeedback(feedback) ==
    IF "feedback_log" \in storage THEN feedback_log
    ELSE Append(feedback_log, feedback)

\* _process_feedback.  With rating None, feedback.get("rating", 0) is None
\* and None >= 4 raises TypeError, which the handler catches: no effect.
_process_feedback(feedback) ==
    IF feedback.rating = None
    THEN UNCHANGED <<thresholds_file, threshold_writes, reference_dataset>>
    ELSE /\ _update_thresholds(feedback)
         /\ reference_dataset' =
              IF feedback.rating[1] >= 4
              THEN AddedToReferenceDataset(feedback)
              ELSE reference_dataset

\* rating: Optional; metadata: a function on a subset of {"input", "output"}
submit_feedback(session_id, feedback_type, rating, comment, metadata) ==
    LET feedback == [session_id |-> session_id,
                     feedback_type |-> feedback_type,
                     rating |-> rating, comment |-> comment,
                     metadata |-> metadata, timestamp |-> now]
    IN  /\ call' = [op |-> "submit_feedback", feedback_type |-> feedback_type,
                    rating |-> rating, metadata |-> metadata]
        /\ now' = now + 1
        /\ feedback_history' =
             DequeAppend(feedback_history, feedback, FEEDBACK_HISTORY_MAXLEN)
        /\ inserted' = Logged("feedback_history", feedback)
        /\ feedback_log' = SavedFeedback(feedback)
        /\ _process_feedback(feedback)
        /\ ret' = Some(feedback)
        /\ UNCHANGED <<am_vars, dd_vars, embedding_model, relevance_obs,
                       storage, requests>>

----------------------------------------------------------------------------
(* The chat handler *)

HandlersPreemptedAsThreads == TRUE

\* Whether another handler can run between two statements of a handler.
\* The handlers are coroutines on the event-loop thread of the one process
\* uvicorn.run starts, and no await in them suspends: get_chatbot_response
\* calls llm.invoke and evaluate_chat_response calls
\* monitor.evaluate_response, both synchronously.
HandlersPreempted == FALSE

PropagatingChannelsSlack == {"slack"}

\* the channels whose failure leaves _send_alert as an exception: none, the
\* console being a logging call and the other three catching their own
PropagatingChannels == {}

\* the counter check_quality_alert leaves, in a handler that read the
\* counter as request.seen before it was preempted
ChatFailures(request, evaluation) ==
    LET relevance == evaluation.scores.relevance
    IN  IF request.pc = "compared" /\ relevance # None
           /\ relevance[1] < alert_thresholds.relevance_threshold
        THEN request.seen[1] + 1
        ELSE RelevanceFailures(relevance)

\* alert["timestamp"] = datetime.utcnow().isoformat()
Stamped(alert, timestamp) ==
    IF alert = None THEN None
    ELSE Some([f \in DOMAIN alert[1] \cup {"timestamp"} |->
                 IF f = "timestamp" THEN timestamp ELSE alert[1][f]])

\* the alert check_quality_alert(evaluation) sends and returns
ChatQualityAlert(request, evaluation, timestamp) ==
    IF ~evaluation.evaluations_available THEN None
    ELSE Stamped(OverallQualityAlert(evaluation.overall_quality,
                     RelevanceAlert(evaluation.scores.relevance,
                                    ChatFailures(request, evaluation))),
                 timestamp)

\* the alert check_drift_alert(drift_results) sends and returns
ChatDriftAlert(drift_results, timestamp) ==
    IF ~Get(drift_results, "any_drift_detected", FALSE) THEN None
    ELSE LET details == DriftDetails(drift_results)
         IN  Some([type |-> "drift_detected", severity |-> "high",
                   timestamp |-> timestamp, details |-> details,
                   message |-> <<"Drift detected:",
                                 [i \in 1..Len(details) |->
                                     details[i].drift_type]>>])

\* result["metadata"] as returned; "alerts" is set when an alert was raised
ChatMetadata(evaluation, drift_results, quality_alert, drift_alert) ==
    LET metadata == [evaluation |-> evaluation,
                     drift_detection |-> drift_results]
    IN  IF quality_alert # None \/ drift_alert # None
        THEN With(metadata, "alerts", [quality_alert |-> quality_alert,
                                       drift_alert |-> drift_alert])
        ELSE metadata

\* an exception in the try block becomes HTTPException(500)
ChatOutcome(request, metadata, sent) ==
    IF sent # <<>> /\ PropagatingChannels \cap channels.failing # {}
    THEN Raised("HTTPException")
    ELSE Some([response |-> request.response_text, metadata |-> metadata])

\* step 4 of the handler: detect_all_drifts
ChatDetectorBecomes(d) ==
    /\ response_embeddings' = d.response_embeddings
    /\ input_embeddings' = d.input_embeddings
    /\ quality_scores' = d.quality_scores
    /\ drift_detected' = d.drift_detected
    /\ drift_history' = d.drift_history

\* step 6 of the handler: check_quality_alert, then check_drift_alert, from
\* the clock and the insertion log that step 4 left
ChatAlerts(r, evaluation, drift_results, clock, log) ==
    LET request == requests[r]
        quality_alert == ChatQualityAlert(request, evaluation, clock)
        drift_alert == ChatDriftAlert(drift_results, clock + Len(quality_alert))
        sent == quality_alert \o drift_alert
        first == IF quality_alert = None THEN alert_history
                 ELSE DequeAppend(alert_history, quality_alert[1],
                                  ALERT_HISTORY_MAXLEN)
        outcome == ChatOutcome(request,
                               ChatMetadata(evaluation, drift_results,
                                            quality_alert, drift_alert), sent)
    IN  /\ alert_history' =
             IF drift_alert = None THEN first
             ELSE DequeAppend(first, drift_alert[1], ALERT_HISTORY_MAXLEN)
        /\ consecutive_failures' =
             IF evaluation.evaluations_available
             THEN [consecutive_failures EXCEPT
                     !.relevance = ChatFailures(request, evaluation)]
             ELSE consecutive_failures
        /\ relevance_obs' =
             IF evaluation.evaluations_available
             THEN relevance_obs \o evaluation.scores.relevance
             ELSE relevance_obs
        /\ now' = clock + Len(sent)
        /\ inserted' = [log EXCEPT !.alert_history = @ \o sent]
        /\ attempts' = IF sent = <<>> THEN attempts
                       ELSE <<[channel |-> "history", failed |-> FALSE]>>
                              \o ChannelAttempts
        /\ ret' = outcome
        /\ requests' = [requests EXCEPT ![r] =
                          [pc |-> "done", input_text |-> request.input_text,
                           response_text |-> request.response_text,
                           evaluation |-> Some(evaluation),
                           drift_results |-> Some(drift_results),
                           seen |-> request.seen, outcome |-> outcome]]

\* The chat handler from the point where the chatbot's response is there
\* (main.py steps 3 to 6), as far as it runs without another handler
\* running: to its end, or, preempted, to between the read and the write of
\* `consecutive_failures["relevance"] += 1`.  The Prometheus metrics of step
\* 5 accept every value they are given and are not part of the state.
chat(r, evaluation) ==
    LET request == requests[r]
        drifts == AllDrifts(Detector, request.input_text,
                            request.response_text, evaluation.overall_quality)
    IN  /\ call' = [op |-> "chat", request |-> r]
        /\ UNCHANGED <<alert_thresholds, channels, baseline, thresholds,
                       fp_vars, thresholds_file, embedding_model,
                       threshold_writes>>
        /\ IF request.pc = "compared"
           THEN /\ ChatAlerts(r, evaluation, request.drift_results[1],
                              now, inserted)
                /\ UNCHANGED <<response_embeddings, input_embeddings,
                               quality_scores, drift_detected, drift_history>>
           ELSE /\ ChatDetectorBecomes(drifts.d)
                /\ IF HandlersPreempted
                   THEN /\ now' = drifts.d.now
                        /\ inserted' = drifts.d.inserted
                        /\ ret' = None
                        /\ requests' = [requests EXCEPT ![r] =
                             [pc |-> "compared",
                              input_text |-> request.input_text,
                              response_text |-> request.response_text,
                              evaluation |-> Some(evaluation),
                              drift_results |-> Some(drifts.result),
                              seen |-> Some(consecutive_failures.relevance),
                              outcome |-> None]]
                        /\ UNCHANGED <<alert_history, consecutive_failures,
                                       relevance_obs, attempts>>
                   ELSE ChatAlerts(r, evaluation, drifts.result,
                                   drifts.d.now, drifts.d.inserted)

\* a chat request arrives: the server accepts it, its handler has not run
accept_chat(input_text, response_text) ==
    /\ call' = [op |-> "accept_chat"]
    /\ ret' = None
    /\ requests' = Append(requests,
                          [pc |-> "received", input_text |-> input_text,
                           response_text |-> response_text,
                           evaluation |-> None, drift_results |-> None,
                           seen |-> None, outcome |-> None])
    /\ UNCHANGED <<am_vars, dd_vars, fp_vars, thresholds_file,
                   embedding_model, now, threshold_writes, relevance_obs,
                   inserted>>

----------------------------------------------------------------------------
(* Initial state: the three components as constructed *)

\* The module-level instances, constructed in a process that finds `file` at
\* /app/config/thresholds.json, no baseline file and no feedback log, and in
\* which the sentence transformer loaded (model) or did not.
ConstructedFrom(file, model, configured, failing, unwritable, loaded) ==
    /\ AlertManagerInit
    /\ feedback_log = <<>>
    /\ storage = unwritable
    /\ requests = <<>>
    /\ channels = [configured |-> configured, failing |-> failing]
    /\ attempts = <<>>
    /\ baseline = loaded
    /\ thresholds = _load_thresholds(file)
    /\ response_embeddings = <<>>
    /\ input_embeddings = <<>>
    /\ quality_scores = <<>>
    /\ drift_detected = [response_drift |-> FALSE, data_drift |-> FALSE,
                         quality_drift |-> FALSE]
    /\ drift_history = <<>>
    /\ feedback_history = <<>>
    /\ reference_dataset = <<>>
    /\ thresholds_file = file
    /\ embedding_model = model
    /\ now = 0
    /\ threshold_writes = 0
    /\ call = [op |-> "init"]
    /\ ret = None
    /\ relevance_obs = <<>>
    /\ inserted = [alert_history |-> <<>>, feedback_history |-> <<>>,
                   response_embeddings |-> <<>>, input_embeddings |-> <<>>,
                   quality_scores |-> <<>>]

\* construction in a process that finds no baseline file
ConstructedIn(file, model, configured, failing, unwritable) ==
    ConstructedFrom(file, model, configured, failing, unwritable, NoBaseline)

\* construction with both files writable
ConstructedWith(file, model, configured, failing) ==
    ConstructedIn(file, model, configured, failing, {})

\* construction with no optional channel configured and no channel failing
Constructed(file, model) == ConstructedWith(file, model, {}, {})

----------------------------------------------------------------------------
(* SpecAlert: any sequence of check_quality_alert calls *)

RelevanceInputs == {None, Some(6500), Some(7000)}
OverallInputs == {None, Some(5000), Some(6000)}
Evaluations ==
    {[evaluations_available |-> FALSE, scores |-> [relevance |-> None],
      overall_quality |-> None]}
    \cup {[evaluations_available |-> TRUE, scores |-> [relevance |-> r],
           overall_quality |-> q] : r \in RelevanceInputs, q \in OverallInputs}

CheckQuality ==
    /\ Len(relevance_obs) < MaxObs
    /\ Len(inserted.alert_history) < MaxAlerts
    /\ \E evaluation \in Evaluations : check_quality_alert(evaluation)

NextAlert == CheckQuality
InitAlert == Constructed(None, TRUE)
SpecAlert == InitAlert /\ [][NextAlert]_vars

\* C1: a high-severity quality_degradation alert for metric relevance is
\* appended to the alert history only by a call after which the relevance
\* counter has reached consecutive_failures_required, the last ten relevance
\* scores compared, ending with that call's, all being below the threshold.
IsRelevanceAlert(a) ==
    a.type = "quality_degradation" /\ a.severity = "high"
    /\ a.metric = "relevance"

AllBelow(obs, threshold) == \A i \in 1..Len(obs) : obs[i] < threshold

C1_RelevanceAlertOnlyAfterTenFailures ==
    [][(Len(inserted'.alert_history) > Len(inserted.alert_history)
        /\ IsRelevanceAlert(alert_history'[Len(alert_history')]))
       => /\ call'.op = "check_quality_alert"
          /\ consecutive_failures'.relevance
               >= alert_thresholds.consecutive_failures
          /\ Len(relevance_obs') >= CONSECUTIVE_FAILURES_REQUIRED
          /\ relevance_obs'[Len(relevance_obs')]
               = call'.evaluation.scores.relevance[1]
          /\ AllBelow(LastN(relevance_obs', CONSECUTIVE_FAILURES_REQUIRED),
                      alert_thresholds.relevance_threshold)]_vars

C1_Witness ==
    /\ call.op = "check_quality_alert"
    /\ ret # None
    /\ IsRelevanceAlert(ret[1])
    /\ alert_history[Len(alert_history)] = ret[1]

\* C2: the relevance counter is non-negative and equals the number of
\* relevance scores below relevance_threshold compared since the most recent
\* score at or above it (or since the start).
RECURSIVE TrailingFailures(_, _)
TrailingFailures(obs, threshold) ==
    IF obs = <<>> \/ obs[Len(obs)] >= threshold THEN 0
    ELSE 1 + TrailingFailures(SubSeq(obs, 1, Len(obs) - 1), threshold)

C2_CounterCountsFailuresSinceLastPass ==
    /\ consecutive_failures.relevance >= 0
    /\ consecutive_failures.relevance
         = TrailingFailures(relevance_obs, alert_thresholds.relevance_threshold)

\* k failures, one pass, then a fresh run of failures that has reached ten
C2_Witness ==
    /\ consecutive_failures.relevance = CONSECUTIVE_FAILURES_REQUIRED
    /\ Len(relevance_obs) = CONSECUTIVE_FAILURES_REQUIRED + 2
    /\ relevance_obs[1] < alert_thresholds.relevance_threshold
    /\ relevance_obs[2] >= alert_thresholds.relevance_threshold
    /\ ret # None /\ IsRelevanceAlert(ret[1])

----------------------------------------------------------------------------
(* SpecFeedback: any sequence of submit_feedback calls, from any content   *)
(* of the thresholds file                                                  *)

\* a thresholds file as deployed beside the detector's keys, the two
\* adaptable keys set to v; coherence_threshold is not in it
ThresholdsFile(quality, relevance) ==
    Some([drift_threshold |-> DEFAULT_DRIFT_THRESHOLD,
          quality_threshold |-> quality,
          relevance_threshold |-> relevance,
          embedding_distance_threshold |->
              DEFAULT_EMBEDDING_DISTANCE_THRESHOLD])

StoredValues ==
    {2000, 2990, 3000, 3005, 3010, 3100, 3300, 6000, 9490, 9495, 9500, 9900}

NoMetadata == [k \in {} |-> ""]
Metadatas ==
    {NoMetadata, [k \in {"input"} |-> "hi"],
     [k \in {"input", "output"} |-> IF k = "input" THEN "hi" ELSE "hello"]}

SubmitFeedback ==
    /\ Len(inserted.feedback_history) < MaxSubmits
    /\ \E feedback_type \in {"quality", "coherence", "helpful"},
          rating \in {None, Some(1), Some(3), Some(5)},
          metadata \in Metadatas :
          submit_feedback("s1", feedback_type, rating, None, metadata)

InitFeedback ==
    \E file \in {None} \cup {ThresholdsFile(v, RELEVANCE_THRESHOLD) :
                              v \in StoredValues} :
        Constructed(file, TRUE)
NextFeedback == SubmitFeedback
SpecFeedback == InitFeedback /\ [][NextFeedback]_vars

AdaptableKeys ==
    {"quality_threshold", "relevance_threshold", "coherence_threshold"}
InClampRange(v) == THRESHOLD_MIN <= v /\ v <= THRESHOLD_MAX
StoredKeys(file) == IF file = None THEN {} ELSE DOMAIN file[1]

\* C4: every value threshold adaptation writes to the thresholds file lies
\* in [0.3, 0.95], whatever the value stored before, and a stored adaptable
\* threshold inside [0.3, 0.95] is still inside it after any submit_feedback.
C4_AdaptationStaysInClampRange ==
    [][\A k \in AdaptableKeys \cap StoredKeys(thresholds_file) :
          /\ k \in StoredKeys(thresholds_file')
          /\ thresholds_file'[1][k] # thresholds_file[1][k]
               => InClampRange(thresholds_file'[1][k])
          /\ InClampRange(thresholds_file[1][k])
               => InClampRange(thresholds_file'[1][k])]_vars

\* a write that the clamp decided: 0.31 * 0.95 or 0.2 * 1.02 written as 0.3
C4_Witness ==
    /\ call.op = "submit_feedback"
    /\ threshold_writes > 0
    /\ thresholds_file[1].quality_threshold = THRESHOLD_MIN
    /\ feedback_history[Len(feedback_history)].feedback_type = "quality"

MappedTypes == {"quality", "relevance", "coherence"}

\* C23: a submit_feedback whose rating is absent, whose rating is 3, or
\* whose feedback_type is not quality, relevance or coherence writes nothing
\* to the thresholds file; and an adaptation of one mapped key leaves every
\* other key of the file as it was.
C23_NeutralOrUnmappedFeedbackWritesNothing ==
    [][call'.op = "submit_feedback"
         => /\ (\/ call'.rating = None
                \/ call'.rating = Some(3)
                \/ call'.feedback_type \notin MappedTypes)
                 => /\ thresholds_file' = thresholds_file
                    /\ threshold_writes' = threshold_writes
            /\ StoredKeys(thresholds_file') = StoredKeys(thresholds_file)
            /\ \A k \in StoredKeys(thresholds_file) :
                  Some(k) # ThresholdKey(call'.feedback_type)
                    => thresholds_file'[1][k] = thresholds_file[1][k]
      ]_vars

\* after quality feedback with rating 1 lowered quality_threshold, a
\* "helpful" feedback with rating 1 left the file as it was
C23_Witness ==
    /\ call.op = "submit_feedback"
    /\ call.feedback_type = "helpful" /\ call.rating = Some(1)
    /\ Len(feedback_history) = 2
    /\ feedback_history[1].feedback_type = "quality"
    /\ threshold_writes = 1
    /\ thresholds_file[1].quality_threshold # QUALITY_THRESHOLD
    /\ thresholds_file[1].relevance_threshold = RELEVANCE_THRESHOLD

\* the candidate of the adaptation in millionths: the old value times 0.95
\* for a rating of at most 2 and times 1.02 for one of at least 4, clamped
CandidateOf(old_value, rating) ==
    LET product == old_value * (IF rating <= 2 THEN 95 ELSE 102)
    IN  IF product < 300000 THEN 300000
        ELSE IF product > 950000 THEN 950000 ELSE product

\* a submit_feedback step whose type maps to a key of the file and whose
\* rating is at most 2 or at least 4
Adapting ==
    /\ call'.op = "submit_feedback"
    /\ thresholds_file # None
    /\ call'.feedback_type \in MappedTypes
    /\ ThresholdKey(call'.feedback_type)[1] \in StoredKeys(thresholds_file)
    /\ call'.rating # None
    /\ call'.rating # Some(3)

AdaptedKey == ThresholdKey(call'.feedback_type)[1]

\* C24 as stated: the file is written only if the clamped candidate differs
\* from the old value by more than 0.001, the stored threshold after a write
\* equals the clamped candidate, and otherwise it stays the old value.  (A
\* difference of exactly 0.001 is left open here: binary64 decides it.)
C24_StoredEqualsClampedCandidate ==
    [][Adapting =>
        LET old_value == thresholds_file[1][AdaptedKey]
            candidate == CandidateOf(old_value, call'.rating[1])
            stored == thresholds_file'[1][AdaptedKey]
        IN  /\ Abs(candidate - old_value * 100) > 1000
              => stored * 100 = candidate
            /\ Abs(candidate - old_value * 100) < 1000
              => stored = old_value
            /\ threshold_writes' # threshold_writes
              => stored * 100 = candidate
      ]_vars

\* C24: the file is written exactly when the clamped candidate differs from
\* the old value by at least 0.001 (a difference of exactly 0.001 arises
\* only against a clamp bound, and binary64 computes it as more than
\* 0.001); after a write the stored threshold is the clamped candidate
\* rounded to three decimals, which is within 0.0005 of the candidate;
\* otherwise the stored value stays exactly the old value.
C24_StoredIsCandidateRoundedToThreeDecimals ==
    [][Adapting =>
        LET old_value == thresholds_file[1][AdaptedKey]
            candidate == CandidateOf(old_value, call'.rating[1])
            stored == thresholds_file'[1][AdaptedKey]
        IN  IF Abs(candidate - old_value * 100) >= 1000
            THEN /\ threshold_writes' = threshold_writes + 1
                 /\ stored % 10 = 0
                 /\ Abs(stored * 100 - candidate) <= 500
            ELSE /\ threshold_writes' = threshold_writes
                 /\ stored = old_value
      ]_vars

\* 0.33 * 0.95 = 0.3135 was stored as 0.314
C24_Witness ==
    /\ call.op = "submit_feedback"
    /\ call.feedback_type = "quality" /\ call.rating = Some(1)
    /\ Len(feedback_history) = 1
    /\ threshold_writes = 1
    /\ thresholds_file[1].quality_threshold = 3140

----------------------------------------------------------------------------
(* SpecLoop: feedback submissions and alert checks in one process whose    *)
(* thresholds file holds the values the AlertManager was constructed with  *)

SubmitLoop ==
    /\ Len(inserted.feedback_history) < MaxLoopSubmits
    /\ \E feedback_type \in {"quality", "relevance"},
          rating \in {Some(1), Some(5)} :
          submit_feedback("s1", feedback_type, rating, None, NoMetadata)

CheckLoop ==
    /\ Len(relevance_obs) < MaxLoopChecks
    /\ \E r \in {Some(6800), Some(7050)},
          q \in {Some(5800), Some(6050)} :
          check_quality_alert([evaluations_available |-> TRUE,
                               scores |-> [relevance |-> r],
                               overall_quality |-> q])

InitLoop ==
    Constructed(ThresholdsFile(QUALITY_THRESHOLD, RELEVANCE_THRESHOLD), TRUE)
NextLoop == SubmitLoop \/ CheckLoop
SpecLoop == InitLoop /\ [][NextLoop]_vars

\* C3: after submit_feedback has written a changed quality_threshold or
\* relevance_threshold to the thresholds file, the next check_quality_alert
\* compares the evaluation against the value in the file: the overall
\* quality alert is raised exactly when overall_quality is below the stored
\* quality_threshold, and the relevance score counts as a failure exactly
\* when it is below the stored relevance_threshold.
C3_CheckUsesAdaptedThresholds ==
    (call.op = "check_quality_alert" /\ threshold_writes > 0)
    => /\ (ret # None /\ ret[1].metric = "overall_quality")
            <=> call.evaluation.overall_quality[1]
                  < thresholds_file[1].quality_threshold
       /\ consecutive_failures.relevance > 0
            <=> call.evaluation.scores.relevance[1]
                  < thresholds_file[1].relevance_threshold

----------------------------------------------------------------------------
(* SpecConverge: one mapped feedback_type and one rating, 1 or 5, chosen   *)
(* by the first submission and repeated by every later one                 *)

RepeatSubmit ==
    /\ Len(inserted.feedback_history) < MaxRepeats
    /\ \E feedback_type \in {"quality", "relevance"},
          rating \in {Some(1), Some(5)} :
          /\ call.op = "submit_feedback"
               => call.feedback_type = feedback_type /\ call.rating = rating
          /\ submit_feedback("s1", feedback_type, rating, None, NoMetadata)

InitConverge ==
    \E v \in {w \in StoredValues : InClampRange(w)} :
        Constructed(ThresholdsFile(v, v), TRUE)
NextConverge == RepeatSubmit
SpecConverge == InitConverge /\ [][NextConverge]_vars /\ WF_vars(NextConverge)

\* the stored threshold the repeated submissions adapt
Adapted(file) == file[1][ThresholdKey(call.feedback_type)[1]]
Repeating(rating) == call.op = "submit_feedback" /\ call.rating = Some(rating)
RepeatingNext(rating) ==
    call'.op = "submit_feedback" /\ call'.rating = Some(rating)
AdaptedNext(file) == file[1][ThresholdKey(call'.feedback_type)[1]]

\* C5 as claimed: repeated rating=1 submissions keep lowering the threshold
\* until it is at the lower clamp 0.3, and repeated rating=5 submissions
\* keep raising it until it is at 0.95: a submission writes nothing only
\* once the threshold is at the clamp.
C5_NoWriteOnlyAtClamp ==
    [][/\ (RepeatingNext(1) /\ threshold_writes' = threshold_writes)
            => AdaptedNext(thresholds_file') = THRESHOLD_MIN
       /\ (RepeatingNext(5) /\ threshold_writes' = threshold_writes)
            => AdaptedNext(thresholds_file') = THRESHOLD_MAX]_vars

\* within 0.001 of the clamp the adaptation is no longer written
Settled ==
    /\ call.op = "submit_feedback"
    /\ Repeating(1) => /\ THRESHOLD_MIN <= Adapted(thresholds_file)
                       /\ Adapted(thresholds_file) < THRESHOLD_MIN + MIN_CHANGE
    /\ Repeating(5) => /\ Adapted(thresholds_file) <= THRESHOLD_MAX
                       /\ Adapted(thresholds_file) > THRESHOLD_MAX - MIN_CHANGE

\* C5, amended: repeated rating=1 submissions never increase the threshold
\* and eventually bring it to within 0.001 of the lower clamp (to 0.3 itself
\* unless it started less than 0.001 above it), after which nothing is
\* written; repeated rating=5 submissions never decrease it and eventually
\* bring it to within 0.001 of 0.95.
C5_ConvergesToWithinMinChangeOfClamp ==
    /\ [][/\ RepeatingNext(1) => AdaptedNext(thresholds_file')
                                   <= AdaptedNext(thresholds_file)
          /\ RepeatingNext(5) => AdaptedNext(thresholds_file')
                                   >= AdaptedNext(thresholds_file)
          /\ (threshold_writes' = threshold_writes /\ call'.op = "submit_feedback")
               => Settled'
          /\ Settled => threshold_writes' = threshold_writes]_vars
    /\ <>[]Settled

\* from 0.95 down to the clamp itself, in more than twenty writes
C5_Witness ==
    /\ Repeating(1)
    /\ Adapted(thresholds_file) = THRESHOLD_MIN
    /\ threshold_writes > 20
    /\ Settled

----------------------------------------------------------------------------
(* SpecQuality: any sequence of detect_quality_drift calls, on a detector  *)
(* constructed with the default quality_threshold or with 0.3 in the file  *)

DetectQuality ==
    /\ Len(inserted.quality_scores) < MaxQuality
    /\ \E quality_score \in {None, Some(0), Some(10000)} :
          detect_quality_drift(quality_score)

InitQuality ==
    \E file \in {None, ThresholdsFile(THRESHOLD_MIN, RELEVANCE_THRESHOLD)} :
        Constructed(file, TRUE)
NextQuality == DetectQuality
SpecQuality == InitQuality /\ [][NextQuality]_vars

IsDetermination(result) == "reason" \notin DOMAIN result

\* C7: each of the first nine detect_quality_drift calls with a score returns
\* drift_detected = false with the insufficient-samples reason, sets no flag
\* and appends no event; the tenth call with a score makes a determination.
C7_DeterminationFromTenthScore ==
    (call.op = "detect_quality_drift" /\ call.quality_score # None)
    => IF Len(inserted.quality_scores) < MIN_QUALITY_SAMPLES
       THEN /\ ret[1] = [drift_detected |-> FALSE,
                         reason |-> "Insufficient samples",
                         sample_count |-> Len(inserted.quality_scores)]
            /\ ~drift_detected.quality_drift
            /\ drift_history = <<>>
       ELSE /\ IsDetermination(ret[1])
            /\ ret[1].type = "quality_drift"

C7_Witness ==
    /\ call.op = "detect_quality_drift" /\ call.quality_score # None
    /\ Len(inserted.quality_scores) = MIN_QUALITY_SAMPLES
    /\ IsDetermination(ret[1])
    /\ ret[1].drift_detected

\* a / b < c / d for positive b and d
FractionBelow(a, b, c, d) == a * d < c * b

\* C8: when detect_quality_drift makes a determination, drift_detected is
\* true exactly when recent_avg < quality_threshold or recent_avg < 0.8 *
\* overall_avg, recent_avg being the mean of the last ten scores submitted
\* and overall_avg the mean of the scores retained (at most the last 100).
C8_QualityDriftRule ==
    (call.op = "detect_quality_drift" /\ ret # None /\ IsDetermination(ret[1]))
    => LET submitted == inserted.quality_scores
           recent == LastN(submitted, 10)
           retained == LastN(submitted, WINDOW_MAXLEN)
           r == ret[1]
       IN  /\ r.recent_average = [sum |-> SumSeq(recent), count |-> 10]
           /\ r.overall_average =
                [sum |-> SumSeq(retained), count |-> Len(retained)]
           /\ r.threshold = Get(thresholds, "quality_threshold",
                                DEFAULT_QUALITY_THRESHOLD)
           /\ r.drift_detected
                <=> \/ FractionBelow(SumSeq(recent), 10, r.threshold, 1)
                    \/ FractionBelow(10 * SumSeq(recent), 10,
                                     8 * SumSeq(retained), Len(retained))

\* detected by the relative rule alone: recent_avg is not below the
\* threshold, but is below 0.8 * overall_avg
C8_Witness ==
    /\ call.op = "detect_quality_drift" /\ ret # None
    /\ IsDetermination(ret[1])
    /\ ret[1].drift_detected
    /\ ret[1].recent_average.sum >= ret[1].threshold * 10
    /\ Len(quality_scores) > RECENT_SAMPLES

----------------------------------------------------------------------------
(* SpecDrift: the detector's operations in any order, the baseline set    *)
(* first or again in answer to a detection, and no reset directly after a  *)
(* reset.  Quality scores come before the first embedding is stored, and  *)
(* are zeros                                                               *)
(* followed by ones, which is enough to detect at the tenth score and not  *)
(* to detect at the eleventh.                                              *)

Texts == {"t0", "t1", "t2"}

DetectOps ==
    {"detect_response_drift", "detect_data_drift", "detect_quality_drift"}

FlagOf(op) ==
    CASE op = "detect_response_drift" -> "response_drift"
      [] op = "detect_data_drift" -> "data_drift"
      [] OTHER -> "quality_drift"

SetBaseline ==
    /\ \/ baseline = NoBaseline /\ call.op # "set_baseline"
       \/ call.op \in DetectOps /\ ret[1].drift_detected
    /\ \/ set_baseline(<<"t0">>, None)
       \/ set_baseline(<<"t0", "t1">>, Some(<<"t1">>))

DetectResponse ==
    /\ Len(inserted.response_embeddings) + Len(inserted.input_embeddings)
         < MaxEmbeds
    /\ \E response_text \in Texts : detect_response_drift(response_text)

DetectData ==
    /\ Len(inserted.response_embeddings) + Len(inserted.input_embeddings)
         < MaxEmbeds
    /\ \E input_text \in Texts : detect_data_drift(input_text)

DetectQualityDrift ==
    /\ Len(inserted.quality_scores) < MaxDriftScores
    /\ inserted.response_embeddings = <<>>
    /\ inserted.input_embeddings = <<>>
    /\ \E quality_score \in {Some(0), Some(10000)} :
          /\ quality_score = Some(0)
               => \A i \in 1..Len(inserted.quality_scores) :
                      inserted.quality_scores[i] = 0
          /\ detect_quality_drift(quality_score)

Reset ==
    /\ call.op # "reset_drift_state"
    /\ reset_drift_state

InitDrift ==
    \E model \in BOOLEAN : Constructed(None, model)
NextDrift ==
    \/ SetBaseline
    \/ DetectResponse
    \/ DetectData
    \/ DetectQualityDrift
    \/ Reset
SpecDrift == InitDrift /\ [][NextDrift]_vars

\* C9: a drift flag is set by any call of its check that detects drift, and
\* once set stays set until reset_drift_state: no other operation, and no
\* later non-detecting call, clears it.
C9_FlagsStickyUntilReset ==
    [][/\ (call'.op \in DetectOps /\ ret'[1].drift_detected)
            => drift_detected'[FlagOf(call'.op)]
       /\ \A flag \in DOMAIN drift_detected :
            drift_detected[flag]
              => (drift_detected'[flag] \/ call'.op = "reset_drift_state")
      ]_vars

\* a check of the flag's own type has just made a determination of no
\* drift, and the flag is still set
C9_Witness ==
    /\ call.op \in DetectOps
    /\ IsDetermination(ret[1])
    /\ ~ret[1].drift_detected
    /\ drift_detected[FlagOf(call.op)]

\* C10: reset_drift_state sets the three flags to false and leaves the
\* windows, the drift history, the baseline and the thresholds unchanged.
C10_ResetClearsOnlyFlags ==
    [][call'.op = "reset_drift_state"
         => /\ drift_detected' = [response_drift |-> FALSE,
                                  data_drift |-> FALSE,
                                  quality_drift |-> FALSE]
            /\ UNCHANGED <<response_embeddings, input_embeddings,
                           quality_scores, drift_history, baseline,
                           thresholds, am_vars, fp_vars, thresholds_file>>
      ]_vars

\* a reset of a detector with events in its history, samples in its windows
\* and a baseline
C10_Witness ==
    /\ call.op = "reset_drift_state"
    /\ drift_history # <<>>
    /\ response_embeddings # <<>>
    /\ quality_scores # <<>>
    /\ baseline.baseline_embedding # None
    /\ \A flag \in DOMAIN drift_detected : ~drift_detected[flag]

----------------------------------------------------------------------------
(* SpecFill: each bounded collection in turn is filled past its capacity,  *)
(* with items that differ from their neighbours.                           *)

Filled(collection, maxlen) ==
    Len(inserted[collection]) >= maxlen + FillExtra

TextAt(n) == CASE n % 3 = 0 -> "t0" [] n % 3 = 1 -> "t1" [] OTHER -> "t2"

RatingAt(n) ==
    CASE n % 4 = 0 -> None [] n % 4 = 1 -> Some(1)
      [] n % 4 = 2 -> Some(3) [] OTHER -> Some(5)

\* the request's metadata: mostly input and output, now and then input
\* alone or nothing
MetadataAt(n) ==
    CASE n % 21 = 0 -> NoMetadata
      [] n % 21 = 1 -> [k \in {"input"} |-> TextAt(n)]
      [] OTHER -> [k \in {"input", "output"} |->
                     IF k = "input" THEN TextAt(n) ELSE TextAt(n + 1)]

FillBaseline ==
    /\ baseline = NoBaseline
    /\ set_baseline(<<"t0", "t1">>, Some(<<"t0">>))

FillResponses ==
    /\ baseline # NoBaseline
    /\ ~Filled("response_embeddings", WINDOW_MAXLEN)
    /\ detect_response_drift(TextAt(Len(inserted.response_embeddings)))

FillInputs ==
    /\ Filled("response_embeddings", WINDOW_MAXLEN)
    /\ ~Filled("input_embeddings", WINDOW_MAXLEN)
    /\ detect_data_drift(TextAt(Len(inserted.input_embeddings)))

FillQuality ==
    /\ Filled("input_embeddings", WINDOW_MAXLEN)
    /\ ~Filled("quality_scores", WINDOW_MAXLEN)
    /\ detect_quality_drift(
          Some(1000 * (Len(inserted.quality_scores) % 7)))

FillAlerts ==
    /\ Filled("quality_scores", WINDOW_MAXLEN)
    /\ ~Filled("alert_history", ALERT_HISTORY_MAXLEN)
    /\ check_quality_alert(
          [evaluations_available |-> TRUE,
           scores |-> [relevance |-> None],
           overall_quality |->
               Some(1000 * (Len(inserted.alert_history) % 5))])

FillFeedback ==
    /\ Filled("alert_history", ALERT_HISTORY_MAXLEN)
    /\ ~Filled("feedback_history", FEEDBACK_HISTORY_MAXLEN)
    /\ submit_feedback("s1", "helpful",
                       RatingAt(Len(inserted.feedback_history)), None,
                       MetadataAt(Len(inserted.feedback_history)))

InitFill == Constructed(None, TRUE)
NextFill ==
    \/ FillBaseline
    \/ FillResponses
    \/ FillInputs
    \/ FillQuality
    \/ FillAlerts
    \/ FillFeedback
SpecFill == InitFill /\ [][NextFill]_vars

HoldsLast(collection, name, maxlen) ==
    /\ Len(collection) <= maxlen
    /\ collection = LastN(inserted[name], maxlen)

\* C6: the three detector windows (capacity 100), the alert history
\* (capacity 100) and the feedback history (capacity 500) never exceed
\* their capacity, and each holds exactly the last capacity-many items
\* inserted into it, oldest first.
C6_CollectionsHoldLastInserted ==
    /\ HoldsLast(response_embeddings, "response_embeddings", 100)
    /\ HoldsLast(input_embeddings, "input_embeddings", 100)
    /\ HoldsLast(quality_scores, "quality_scores", 100)
    /\ HoldsLast(alert_history, "alert_history", 100)
    /\ HoldsLast(feedback_history, "feedback_history", 500)

\* every collection has had more items inserted than it can hold
C6_Witness ==
    /\ Len(inserted.response_embeddings) > 100
    /\ Len(inserted.input_embeddings) > 100
    /\ Len(inserted.quality_scores) > 100
    /\ Len(inserted.alert_history) > 100
    /\ Len(inserted.feedback_history) > 500
    /\ Len(feedback_history) = 500

\* a feedback record or call that curation takes into the reference set
Curated(f) ==
    /\ f.rating # None
    /\ f.rating[1] >= 4
    /\ {"input", "output"} \subseteq DOMAIN f.metadata

\* C25: a submit_feedback call appends exactly one entry {input, output,
\* rating, timestamp} with the record's fields to the reference set if and
\* only if its rating is at least 4 and its metadata has both an input and
\* an output, and every other submission leaves the reference set
\* unchanged; the reference set never has more than 100 entries, every
\* entry has a rating of at least 4, and on overflow the oldest is dropped.
C25_ReferenceSetCuration ==
    [][call'.op = "submit_feedback"
         => /\ IF Curated(call')
               THEN LET entry == [input |-> call'.metadata["input"],
                                  output |-> call'.metadata["output"],
                                  rating |-> call'.rating,
                                  timestamp |-> ret'[1].timestamp]
                    IN  reference_dataset' =
                          IF Len(reference_dataset) < 100
                          THEN Append(reference_dataset, entry)
                          ELSE Append(Tail(reference_dataset), entry)
               ELSE reference_dataset' = reference_dataset
            /\ Len(reference_dataset') <= 100
            /\ \A i \in 1..Len(reference_dataset') :
                  reference_dataset'[i].rating[1] >= 4
      ]_vars

\* more than 100 submissions were curated and the set holds 100 entries,
\* the oldest of them later than the first curated submission
C25_Witness ==
    /\ call.op = "submit_feedback"
    /\ Len(reference_dataset) = 100
    /\ Cardinality({i \in 1..Len(inserted.feedback_history) :
                      Curated(inserted.feedback_history[i])}) > 100
    /\ reference_dataset[1].timestamp > inserted.feedback_history[4].timestamp
    /\ ~Curated(call)

----------------------------------------------------------------------------
(* Degraded mode of the embedding checks, under SpecDrift *)

Degraded(result, reason) == result = [drift_detected |-> FALSE,
                                      reason |-> reason]

DetectorUnchanged ==
    UNCHANGED <<response_embeddings, input_embeddings, quality_scores,
                drift_detected, drift_history>>

\* C11: without the embedding model, or without the baseline of its own
\* kind, detect_response_drift and detect_data_drift return drift_detected =
\* false with a reason and leave the windows, the flags and the drift
\* history unchanged; with the model and its own baseline a check makes a
\* determination whether or not the other baseline is present.
C11_DegradedModeIsNoOp ==
    [][/\ call'.op = "detect_response_drift"
            => IF ~embedding_model
               THEN /\ Degraded(ret'[1], "Embedding model not available")
                    /\ DetectorUnchanged
               ELSE IF baseline.baseline_embedding = None
               THEN /\ Degraded(ret'[1], "No baseline set")
                    /\ DetectorUnchanged
               ELSE IsDetermination(ret'[1])
       /\ call'.op = "detect_data_drift"
            => IF ~embedding_model
               THEN /\ Degraded(ret'[1], "Embedding model not available")
                    /\ DetectorUnchanged
               ELSE IF baseline.input_baseline_embedding = None
               THEN /\ Degraded(ret'[1], "No input baseline set")
                    /\ DetectorUnchanged
               ELSE IsDetermination(ret'[1])
      ]_vars

\* the data check is disabled for want of an input baseline, after the
\* response check has stored an embedding and detected drift
C11_Witness ==
    /\ call.op = "detect_data_drift"
    /\ Degraded(ret[1], "No input baseline set")
    /\ baseline.baseline_embedding # None
    /\ response_embeddings # <<>>
    /\ input_embeddings = <<>>
    /\ drift_detected.response_drift

----------------------------------------------------------------------------
(* SpecAll: detect_all_drifts, after at most one set_baseline and at most  *)
(* nine quality scores (zeros, then ones) submitted on their own           *)

AllBaseline ==
    /\ baseline = NoBaseline
    /\ call.op # "set_baseline"
    /\ \/ set_baseline(<<"t0">>, None)
       \/ set_baseline(<<"t0", "t1">>, Some(<<"t1">>))

WarmQuality ==
    /\ call.op \in {"init", "detect_quality_drift"}
    /\ Len(inserted.quality_scores) < MIN_QUALITY_SAMPLES - 1
    /\ \E quality_score \in {Some(0), Some(10000)} :
          /\ quality_score = Some(0)
               => \A i \in 1..Len(inserted.quality_scores) :
                      inserted.quality_scores[i] = 0
          /\ detect_quality_drift(quality_score)

DetectAll ==
    /\ now < MaxAllTime
    /\ \E input_text \in Texts, response_text \in Texts,
          quality_score \in {None, Some(0), Some(10000)} :
          detect_all_drifts(input_text, response_text, quality_score)

InitAll == \E model \in BOOLEAN : Constructed(None, model)
NextAll ==
    \/ AllBaseline
    \/ WarmQuality
    \/ DetectAll
SpecAll == InitAll /\ [][NextAll]_vars

Grown(collection, ran) ==
    Len(inserted'[collection]) = Len(inserted[collection])
                                   + (IF ran THEN 1 ELSE 0)

\* C12: every detect_all_drifts call runs the response check and the data
\* check, and the quality check exactly when a score is supplied, whatever
\* the other checks find; any_drift_detected is the OR of the drift_detected
\* results of the checks that ran.
C12_AllChecksRunAndAnyIsOr ==
    [][call'.op = "detect_all_drifts"
         => LET r == ret'[1]
            IN  /\ Grown("response_embeddings",
                         embedding_model /\ baseline.baseline_embedding # None)
                /\ Grown("input_embeddings",
                         embedding_model
                           /\ baseline.input_baseline_embedding # None)
                /\ Grown("quality_scores", call'.quality_score # None)
                /\ ("quality_drift" \in DOMAIN r)
                     <=> (call'.quality_score # None)
                /\ IsDetermination(r.response_drift)
                     <=> (embedding_model
                            /\ baseline.baseline_embedding # None)
                /\ IsDetermination(r.data_drift)
                     <=> (embedding_model
                            /\ baseline.input_baseline_embedding # None)
                /\ r.any_drift_detected
                     <=> \/ r.response_drift.drift_detected
                         \/ r.data_drift.drift_detected
                         \/ /\ "quality_drift" \in DOMAIN r
                            /\ r.quality_drift.drift_detected
      ]_vars

\* only the data check detects: the response check before it and the
\* quality check after it both make a determination of no drift
C12_Witness ==
    /\ call.op = "detect_all_drifts"
    /\ IsDetermination(ret[1].response_drift)
    /\ ~ret[1].response_drift.drift_detected
    /\ ret[1].data_drift.drift_detected
    /\ "quality_drift" \in DOMAIN ret[1]
    /\ IsDetermination(ret[1].quality_drift)
    /\ ~ret[1].quality_drift.drift_detected
    /\ ret[1].any_drift_detected

----------------------------------------------------------------------------
(* The drift history, under SpecDrift *)

\* an event already in the history is never changed or removed
HistoryOnlyGrows ==
    /\ Len(drift_history') >= Len(drift_history)
    /\ SubSeq(drift_history', 1, Len(drift_history)) = drift_history

\* C13 as stated: every determination of detect_response_drift,
\* detect_data_drift or detect_quality_drift appends its event to the drift
\* history, whether or not drift was detected, and no event in the history
\* is changed later.
C13_EveryDeterminationAppended ==
    [][/\ (call'.op \in DetectOps /\ IsDetermination(ret'[1]))
            => drift_history' = Append(drift_history, ret'[1])
       /\ HistoryOnlyGrows
      ]_vars

\* C13: a determination appends its event to the drift history exactly when
\* it detects drift; a determination of no drift, and every other
\* operation, leaves the history as it is, so an event in the history is
\* never changed.
C13_DetectionsAppended ==
    [][/\ (call'.op \in DetectOps /\ IsDetermination(ret'[1]))
            => drift_history' = IF ret'[1].drift_detected
                                THEN Append(drift_history, ret'[1])
                                ELSE drift_history
       /\ ~(call'.op \in DetectOps /\ IsDetermination(ret'[1]))
            => drift_history' = drift_history
       /\ HistoryOnlyGrows
      ]_vars

\* the history holds a detection and the determination of no drift made
\* after it is not in it
C13_Witness ==
    /\ call.op \in DetectOps
    /\ IsDetermination(ret[1])
    /\ ~ret[1].drift_detected
    /\ drift_history # <<>>
    /\ \A i \in 1..Len(drift_history) :
          /\ drift_history[i].drift_detected
          /\ drift_history[i].timestamp < ret[1].timestamp

----------------------------------------------------------------------------
(* The two conditions of check_quality_alert, under SpecAlert *)

IsOverallAlert(a) ==
    a.type = "quality_degradation" /\ a.severity = "medium"
      /\ a.metric = "overall_quality"

\* the call of this step compared a relevance score and left the counter at
\* or above consecutive_failures
RelevanceFires ==
    /\ call'.op = "check_quality_alert"
    /\ call'.evaluation.evaluations_available
    /\ call'.evaluation.scores.relevance # None
    /\ consecutive_failures'.relevance >= alert_thresholds.consecutive_failures

\* the call of this step had an overall_quality below quality_threshold
OverallFires ==
    /\ call'.op = "check_quality_alert"
    /\ call'.evaluation.evaluations_available
    /\ call'.evaluation.overall_quality # None
    /\ call'.evaluation.overall_quality[1] < alert_thresholds.quality_threshold

\* the alerts the step appended
Dispatched ==
    SubSeq(inserted'.alert_history, Len(inserted.alert_history) + 1,
           Len(inserted'.alert_history))

\* C14: when one check_quality_alert call meets both conditions, both the
\* high-severity relevance alert and the medium-severity overall_quality
\* alert are appended to the alert history.
C14_BothAlertsDispatched ==
    [][(RelevanceFires /\ OverallFires)
         => /\ Len(Dispatched) = 2
            /\ \E i \in 1..Len(Dispatched) : IsRelevanceAlert(Dispatched[i])
            /\ \E i \in 1..Len(Dispatched) : IsOverallAlert(Dispatched[i])
      ]_vars

\* C15: whenever the evaluation is available and overall_quality is present
\* and below quality_threshold, the call appends one medium-severity
\* quality_degradation alert for overall_quality, whatever the counters
\* hold, and returns that alert, also when the relevance condition fired in
\* the same call.
C15_OverallAlertImmediateAndReturned ==
    [][OverallFires
         => /\ ret' # None
            /\ IsOverallAlert(ret'[1])
            /\ ret'[1].value = call'.evaluation.overall_quality[1]
            /\ ret'[1].threshold = 6000
            /\ Dispatched = <<ret'[1]>>
      ]_vars

\* the relevance condition fired in the call that returned the
\* overall_quality alert
C15_Witness ==
    /\ call.op = "check_quality_alert"
    /\ call.evaluation.scores.relevance # None
    /\ consecutive_failures.relevance >= 10
    /\ ret # None
    /\ IsOverallAlert(ret[1])

\* C16: a check_quality_alert call with an unavailable evaluation returns no
\* alert and leaves the counters and the alert history unchanged, so it
\* neither extends nor resets a streak; a call with an available evaluation
\* and no relevance score leaves the relevance counter unchanged and
\* dispatches no relevance alert.
C16_UnavailableOrAbsentIsNoOp ==
    [][/\ (call'.op = "check_quality_alert"
             /\ ~call'.evaluation.evaluations_available)
            => /\ ret' = None
               /\ UNCHANGED <<consecutive_failures, alert_history>>
       /\ (call'.op = "check_quality_alert"
             /\ call'.evaluation.evaluations_available
             /\ call'.evaluation.scores.relevance = None)
            => /\ consecutive_failures' = consecutive_failures
               /\ \A i \in 1..Len(Dispatched) : ~IsRelevanceAlert(Dispatched[i])
      ]_vars

\* a streak at the alerting length survives a call without a relevance
\* score, which dispatches the overall_quality alert only
C16_Witness ==
    /\ call.op = "check_quality_alert"
    /\ call.evaluation.evaluations_available
    /\ call.evaluation.scores.relevance = None
    /\ consecutive_failures.relevance >= 10
    /\ ret # None

\* the call of this step compared a relevance score
RelevanceCompared ==
    /\ call'.op = "check_quality_alert"
    /\ call'.evaluation.evaluations_available
    /\ call'.evaluation.scores.relevance # None

\* C30: firing the relevance alert does not reset the counter: a failing
\* relevance observation always raises the counter by one, and once the
\* counter stands at 10 or more every further failing observation
\* dispatches one alert, the high-severity relevance alert unless the
\* overall_quality alert takes its place in that call; an observation at or
\* above the threshold resets the counter to 0 and raises no relevance
\* alert.
C30_RelevanceAlertRepeatsUntilPass ==
    [][RelevanceCompared
         => IF call'.evaluation.scores.relevance[1]
                 < alert_thresholds.relevance_threshold
            THEN /\ consecutive_failures'.relevance
                      = consecutive_failures.relevance + 1
                 /\ consecutive_failures.relevance
                      >= alert_thresholds.consecutive_failures
                      => /\ Len(Dispatched) = 1
                         /\ IF OverallFires
                            THEN IsOverallAlert(Dispatched[1])
                            ELSE /\ IsRelevanceAlert(Dispatched[1])
                                 /\ Dispatched[1].consecutive_failures
                                      = consecutive_failures'.relevance
            ELSE /\ consecutive_failures'.relevance = 0
                 /\ \A i \in 1..Len(Dispatched) :
                       ~IsRelevanceAlert(Dispatched[i])
      ]_vars

\* the 10th, 11th and 12th failing observation each raised the alert
C30_Witness ==
    /\ call.op = "check_quality_alert"
    /\ consecutive_failures.relevance = 12
    /\ Len(alert_history) = 3
    /\ \A i \in 1..3 :
          /\ IsRelevanceAlert(alert_history[i])
          /\ alert_history[i].consecutive_failures = 9 + i

----------------------------------------------------------------------------
(* SpecChecks: check_drift_alert, check_toxicity_alert and                 *)
(* check_hallucination_alert in any order, under any configuration of the  *)
(* optional channels and any set of failing channels                       *)

Channels == {"console", "file", "slack", "email"}

\* sub-results as the detector's checks return them
NotDetected == [drift_detected |-> FALSE, reason |-> "No baseline set"]
ResponseDetected ==
    [drift_detected |-> TRUE, distance |-> [dot |-> 0 - 1, squares |-> 170],
     threshold |-> 4000, timestamp |-> 0, type |-> "response_drift"]
DataDetected ==
    [drift_detected |-> TRUE, distance |-> [dot |-> 3, squares |-> 130],
     threshold |-> 3000, timestamp |-> 0, type |-> "data_drift"]
QualityDetectedResult ==
    [drift_detected |-> TRUE, recent_average |-> [sum |-> 0, count |-> 10],
     overall_average |-> [sum |-> 0, count |-> 10], threshold |-> 6000,
     timestamp |-> 0, type |-> "quality_drift"]

\* a dict of the sub-results given, a missing key for None
ResultsOf(any, response, data, quality) ==
    LET keys == (IF any # None THEN {"any_drift_detected"} ELSE {})
                \cup (IF response # None THEN {"response_drift"} ELSE {})
                \cup (IF data # None THEN {"data_drift"} ELSE {})
                \cup (IF quality # None THEN {"quality_drift"} ELSE {})
    IN  [k \in keys |->
            CASE k = "any_drift_detected" -> any[1]
              [] k = "response_drift" -> response[1]
              [] k = "data_drift" -> data[1]
              [] OTHER -> quality[1]]

DriftResults ==
    {ResultsOf(any, response, data, quality) :
        any \in {None, Some(FALSE), Some(TRUE)},
        response \in {None, Some(NotDetected), Some(ResponseDetected)},
        data \in {Some(NotDetected), Some(DataDetected)},
        quality \in {None, Some(QualityDetectedResult)}}

Chars(n) == [i \in 1..n |-> i % 10]

CheckDrift ==
    /\ Len(inserted.alert_history) < MaxCheckAlerts
    /\ \E drift_results \in DriftResults : check_drift_alert(drift_results)

CheckToxicity ==
    /\ Len(inserted.alert_history) < MaxCheckAlerts
    /\ \E text \in {Chars(3), Chars(PREVIEW_LENGTH + 1)},
          score \in {None, Some(3000), Some(3001), Some(5000)} :
          check_toxicity_alert(text, score)

CheckHallucination ==
    /\ Len(inserted.alert_history) < MaxCheckAlerts
    /\ \E score \in {None, Some(3500), Some(4000), Some(4001)} :
          check_hallucination_alert(score)

InitChecks ==
    \E configured \in SUBSET {"slack", "email"}, failing \in SUBSET Channels :
        ConstructedWith(None, TRUE, configured, failing)
NextChecks ==
    \/ CheckDrift
    \/ CheckToxicity
    \/ CheckHallucination
SpecChecks == InitChecks /\ [][NextChecks]_vars

IsDriftAlert(a) == a.type = "drift_detected" /\ a.severity = "high"

DetailTypes(a) == {a.details[i].drift_type : i \in 1..Len(a.details)}

\* C17: check_drift_alert returns no alert and changes nothing unless
\* any_drift_detected is true; when it is true the call appends exactly one
\* high-severity drift_detected alert, whose details hold one entry for each
\* of response, data and quality whose sub-result has drift_detected = true
\* and none for any other.
C17_DriftAlertAggregatesDetections ==
    [][call'.op = "check_drift_alert"
         => LET results == call'.drift_results
                detected(key) ==
                    /\ key \in DOMAIN results
                    /\ results[key].drift_detected
            IN  IF "any_drift_detected" \in DOMAIN results
                   /\ results.any_drift_detected
                THEN /\ Len(Dispatched) = 1
                     /\ ret' = Some(Dispatched[1])
                     /\ IsDriftAlert(Dispatched[1])
                     /\ Len(Dispatched[1].details)
                          = Cardinality(DetailTypes(Dispatched[1]))
                     /\ "response" \in DetailTypes(Dispatched[1])
                          <=> detected("response_drift")
                     /\ "data" \in DetailTypes(Dispatched[1])
                          <=> detected("data_drift")
                     /\ "quality" \in DetailTypes(Dispatched[1])
                          <=> detected("quality_drift")
                     /\ DetailTypes(Dispatched[1])
                          \subseteq {"response", "data", "quality"}
                ELSE /\ ret' = None
                     /\ UNCHANGED <<am_vars, dd_vars, fp_vars, now>>
      ]_vars

\* an alert for data and quality drift, the response sub-result being
\* present and not detected
C17_Witness ==
    /\ call.op = "check_drift_alert"
    /\ "response_drift" \in DOMAIN call.drift_results
    /\ ret # None
    /\ DetailTypes(ret[1]) = {"data", "quality"}
    /\ alert_history[Len(alert_history)] = ret[1]

\* C18: check_toxicity_alert with a score appends exactly one
\* critical-severity alert carrying the score if and only if score >
\* toxicity_threshold, and check_hallucination_alert exactly one
\* high-severity alert if and only if score > hallucination_threshold; at or
\* below the threshold the call returns no alert and leaves the history
\* unchanged; no counter is read or written.
C18_ThresholdAlertsAreStrictAndOneShot ==
    [][/\ (call'.op = "check_toxicity_alert" /\ call'.score # None)
            => /\ consecutive_failures' = consecutive_failures
               /\ IF call'.score[1] > 3000
                  THEN /\ Len(Dispatched) = 1
                       /\ ret' = Some(Dispatched[1])
                       /\ Dispatched[1].type = "toxicity"
                       /\ Dispatched[1].severity = "critical"
                       /\ Dispatched[1].score = call'.score[1]
                  ELSE /\ ret' = None
                       /\ alert_history' = alert_history
       /\ (call'.op = "check_hallucination_alert" /\ call'.score # None)
            => /\ consecutive_failures' = consecutive_failures
               /\ IF call'.score[1] > 4000
                  THEN /\ Len(Dispatched) = 1
                       /\ ret' = Some(Dispatched[1])
                       /\ Dispatched[1].type = "hallucination"
                       /\ Dispatched[1].severity = "high"
                       /\ Dispatched[1].score = call'.score[1]
                  ELSE /\ ret' = None
                       /\ alert_history' = alert_history
      ]_vars

\* toxicity score 0.5 against the threshold 0.3: one critical alert with
\* score 0.5 in the history, its preview the first 100 characters
C18_Witness ==
    /\ call.op = "check_toxicity_alert"
    /\ call.score = Some(5000)
    /\ Len(call.text) > 100
    /\ Len(alert_history) = 1
    /\ alert_history[1].severity = "critical"
    /\ alert_history[1].score = 5000
    /\ alert_history[1].text_preview = SubSeq(call.text, 1, 100)

Tried == [i \in 1..Len(attempts') |-> attempts'[i].channel]

\* C19: a dispatch appends the alert to the history and then attempts each
\* configured channel exactly once, in the order console, file, webhook,
\* email, whichever of them fail; no failure keeps a later channel from
\* being attempted or reaches the caller, who gets the alert back.
C19_DispatchIsolatesChannelFailures ==
    [][Len(Dispatched) > 0
         => /\ Tried = <<"history", "console", "file">>
                         \o (IF "slack" \in channels.configured
                             THEN <<"slack">> ELSE <<>>)
                         \o (IF "email" \in channels.configured
                             THEN <<"email">> ELSE <<>>)
            /\ \A i \in 2..Len(attempts') :
                  attempts'[i].failed
                    <=> attempts'[i].channel \in channels.failing
            /\ alert_history'[Len(alert_history')] = Dispatched[1]
            /\ ret' = Some(Dispatched[1])
      ]_vars

\* console and file failed, the webhook and the email were still attempted
\* and the alert was returned
C19_Witness ==
    /\ Len(attempts) = 5
    /\ attempts[2].failed
    /\ attempts[3].failed
    /\ attempts[4].channel = "slack"
    /\ attempts[5].channel = "email" /\ attempts[5].failed
    /\ ret # None
    /\ alert_history = <<ret[1]>>

\* C20: a check called without a required input (a null toxicity or
\* hallucination score, drift results without any_drift_detected) takes the
\* condition as not met: it returns no alert, leaves the state unchanged and
\* ends without an error.
C20_AbsentInputIsConditionNotMet ==
    [][(\/ /\ call'.op \in {"check_toxicity_alert",
                            "check_hallucination_alert"}
           /\ call'.score = None
        \/ /\ call'.op = "check_drift_alert"
           /\ "any_drift_detected" \notin DOMAIN call'.drift_results)
         => /\ ret' = None
            /\ UNCHANGED <<am_vars, dd_vars, fp_vars, now>>
      ]_vars

----------------------------------------------------------------------------
(* SpecStatus: the two status reads between operations that change what    *)
(* they report                                                             *)

GetDriftStatus == get_drift_status

GetAlertStatistics == get_alert_statistics

NextStatus ==
    \/ AllBaseline
    \/ DetectResponse
    \/ DetectData
    \/ Reset
    \/ CheckHallucination
    \/ GetDriftStatus
    \/ GetAlertStatistics
InitStatus == Constructed(None, TRUE)
SpecStatus == InitStatus /\ [][NextStatus]_vars

ReadOps == {"get_drift_status", "get_alert_statistics"}

\* C21: get_drift_status and get_alert_statistics change no state of any
\* component, and a second call directly after a first of the same
\* operation returns the same result.
C21_StatusReadsAreReadOnlyAndIdempotent ==
    [][/\ call'.op \in ReadOps
            => UNCHANGED <<am_vars, dd_vars, fp_vars, env_vars, now>>
       /\ (call'.op \in ReadOps /\ call.op = call'.op) => ret' = ret
      ]_vars

\* a status read of a detector with a set flag, an event and a sample, made
\* while an alert is in the history
C21_Witness ==
    /\ call.op = "get_drift_status"
    /\ ret[1].total_drift_events > 0
    /\ ret[1].drift_detected.response_drift
    /\ ret[1].sample_counts.responses > 0
    /\ ret[1].baseline_status.response_baseline_set
    /\ alert_history # <<>>

----------------------------------------------------------------------------
(* SpecRecord: submit_feedback with the thresholds file present or missing *)
(* and each of the two files writable or not                               *)

SubmitRecord ==
    /\ Len(inserted.feedback_history) < MaxRecords
    /\ \E feedback_type \in {"quality", "helpful"},
          rating \in {None, Some(1), Some(3), Some(5)},
          metadata \in Metadatas :
          submit_feedback("s1", feedback_type, rating, None, metadata)

InitRecord ==
    \E file \in {None, ThresholdsFile(QUALITY_THRESHOLD, RELEVANCE_THRESHOLD)},
       unwritable \in SUBSET {"feedback_log", "thresholds"} :
        ConstructedIn(file, TRUE, {}, {}, unwritable)
NextRecord == SubmitRecord
SpecRecord == InitRecord /\ [][NextRecord]_vars

\* C22: every submit_feedback call appends exactly one record with the
\* submitted fields to the feedback history and returns it, without
\* raising, whether or not the log can be written, the thresholds file
\* exists or can be written, or the metadata has input and output; a failed
\* log write or threshold write only skips that effect.
C22_PrimaryFeedbackAlwaysRecorded ==
    [][call'.op = "submit_feedback"
         => /\ ret' # None
            /\ "raised" \notin DOMAIN ret'[1]
            /\ ret'[1].feedback_type = call'.feedback_type
            /\ ret'[1].rating = call'.rating
            /\ ret'[1].metadata = call'.metadata
            /\ feedback_history' = Append(feedback_history, ret'[1])
            /\ feedback_log' = IF "feedback_log" \in storage
                               THEN feedback_log
                               ELSE Append(feedback_log, ret'[1])
            /\ "thresholds" \in storage => thresholds_file' = thresholds_file
            /\ ("thresholds" \notin storage /\ thresholds_file # None
                  /\ call'.rating = Some(1) /\ call'.feedback_type = "quality")
                 => thresholds_file' # thresholds_file
            /\ (call'.rating = Some(5)
                  /\ {"input", "output"} \subseteq DOMAIN call'.metadata)
                 => Len(reference_dataset') = Len(reference_dataset) + 1
      ]_vars

\* neither file can be written: the record is in the history and in the
\* reference set, the log is empty and the thresholds are as they were
C22_Witness ==
    /\ call.op = "submit_feedback"
    /\ storage = {"feedback_log", "thresholds"}
    /\ call.rating = Some(5) /\ call.feedback_type = "quality"
    /\ thresholds_file = ThresholdsFile(QUALITY_THRESHOLD, RELEVANCE_THRESHOLD)
    /\ feedback_history = <<ret[1]>>
    /\ feedback_log = <<>>
    /\ Len(reference_dataset) = 1

----------------------------------------------------------------------------
(* SpecLoaded: a detector constructed in a process whose baseline file was *)
(* written with embeddings of another dimension than the model's           *)

\* _load_baseline: a file holding a three-dimensional response centroid,
\* with or without an input centroid
LoadedBaseline(with_input) ==
    [baseline_embedding |-> Some([sum |-> <<1, 2, 2>>, count |-> 1]),
     baseline_timestamp |-> Some(0),
     baseline_samples |-> <<"t0">>,
     sample_count |-> Some(1),
     input_baseline_embedding |->
         IF with_input THEN Some([sum |-> <<2, 1, 2>>, count |-> 1])
         ELSE None,
     input_sample_count |-> IF with_input THEN Some(1) ELSE None]

LoadedEmbeds ==
    Len(inserted.response_embeddings) + Len(inserted.input_embeddings)

LoadedDetectResponse ==
    /\ LoadedEmbeds < MaxLoaded
    /\ \E response_text \in Texts : detect_response_drift(response_text)

LoadedDetectData ==
    /\ LoadedEmbeds < MaxLoaded
    /\ \E input_text \in Texts : detect_data_drift(input_text)

LoadedSetBaseline ==
    /\ baseline.baseline_samples = <<"t0">>
    /\ set_baseline(<<"t0", "t1">>, Some(<<"t1">>))

InitLoaded ==
    \E with_input \in BOOLEAN :
        ConstructedFrom(None, TRUE, {}, {}, {}, LoadedBaseline(with_input))
NextLoaded ==
    \/ LoadedDetectResponse
    \/ LoadedDetectData
    \/ LoadedSetBaseline
SpecLoaded == InitLoaded /\ [][NextLoaded]_vars

\* C27: a detect_response_drift or detect_data_drift call in which computing
\* the distance to the baseline fails after the text was embedded returns
\* drift_detected = false without raising and leaves the rolling windows,
\* the sticky flags and the drift history exactly as they were.
C27_FailedDistanceLeavesStateUnchanged ==
    [][(/\ call'.op \in {"detect_response_drift", "detect_data_drift"}
        /\ "error" \in DOMAIN ret'[1])
         => /\ ret'[1].drift_detected = FALSE
            /\ UNCHANGED <<response_embeddings, input_embeddings,
                           drift_detected, drift_history>>
      ]_vars

----------------------------------------------------------------------------
(* SpecStats: the statistics read between alerts, up to a full history *)

StatsRoom ==
    Len(inserted.alert_history) < ALERT_HISTORY_MAXLEN + StatsExtra

StatsToxicity ==
    /\ StatsRoom
    /\ check_toxicity_alert(Chars(3), Some(5000))

StatsHallucination ==
    /\ StatsRoom
    /\ Len(inserted.alert_history) < MaxStatMixed
    /\ check_hallucination_alert(Some(4001))

InitStats == Constructed(None, TRUE)
NextStats ==
    \/ StatsToxicity
    \/ StatsHallucination
    \/ GetAlertStatistics
SpecStats == InitStats /\ [][NextStats]_vars

RECURSIVE SumCounts(_)
SumCounts(counts) ==
    IF DOMAIN counts = {} THEN 0
    ELSE LET k == CHOOSE k \in DOMAIN counts : TRUE
         IN  counts[k]
             + SumCounts([j \in DOMAIN counts \ {k} |-> counts[j]])

StatisticsFields == {"total_alerts", "by_type", "by_severity", "recent_count"}

\* the four fields, consistent with the history
ConsistentStatistics(stats) ==
    /\ DOMAIN stats = StatisticsFields
    /\ stats.total_alerts = Len(alert_history)
    /\ SumCounts(stats.by_type) = stats.total_alerts
    /\ SumCounts(stats.by_severity) = stats.total_alerts
    /\ stats.recent_count = Min(10, stats.total_alerts)

\* C29 as stated: in every state, an empty history included,
\* get_alert_statistics returns the four fields total, by_type, by_severity
\* and recent_count, consistent with the history.
C29_StatisticsAlwaysFourFields ==
    call.op = "get_alert_statistics" => ConsistentStatistics(ret[1])

\* C29: with a non-empty history get_alert_statistics returns the four
\* fields total, by_type, by_severity and recent_count, where total is the
\* number of alerts retained, the by_type counts and the by_severity counts
\* each sum to total and recent_count is min(10, total); with an empty
\* history it returns the total, 0, alone.
C29_StatisticsConsistentWhenNonEmpty ==
    call.op = "get_alert_statistics"
      => IF alert_history = <<>>
         THEN ret[1] = [total_alerts |-> 0]
         ELSE ConsistentStatistics(ret[1])

\* read after more alerts than the history holds, of two types
C29_Witness ==
    /\ call.op = "get_alert_statistics"
    /\ Len(inserted.alert_history) > ALERT_HISTORY_MAXLEN
    /\ ret[1].total_alerts = ALERT_HISTORY_MAXLEN
    /\ ret[1].recent_count = 10
    /\ Cardinality(DOMAIN ret[1].by_type) = 2
    /\ Cardinality(DOMAIN ret[1].by_severity) = 2

----------------------------------------------------------------------------
(* SpecChat: chat requests accepted while others are pending, their        *)
(* handlers and feedback submissions in any order, in a process with or    *)
(* without embedding model and saved baseline and with failing channels    *)

\* _load_baseline: the file _save_baseline wrote after
\* set_baseline(["t0"], ["t1"])
SavedBaseline ==
    [baseline_embedding |-> Some(Centroid(<<"t0">>)),
     baseline_timestamp |-> Some(0),
     baseline_samples |-> <<"t0">>,
     sample_count |-> Some(1),
     input_baseline_embedding |-> Some(Centroid(<<"t1">>)),
     input_sample_count |-> Some(1)]

FailingSets == {{}, {"console", "file"}, {"slack", "email"}}

ChatEvaluations ==
    {e \in Evaluations :
        \/ ~e.evaluations_available
        \/ e.scores.relevance = None /\ e.overall_quality = None
        \/ e.scores.relevance = Some(6500) /\ e.overall_quality = Some(5000)
        \/ e.scores.relevance = Some(7000) /\ e.overall_quality = Some(6000)}

\* the chatbot's answers alternate between one far from the baseline and
\* one on it
AcceptChat ==
    /\ Len(requests) < MaxRequests
    /\ accept_chat("t1", IF Len(requests) % 2 = 0 THEN "t2" ELSE "t0")

ChatStep ==
    \E r \in 1..Len(requests) :
        /\ requests[r].pc # "done"
        /\ IF requests[r].pc = "received"
           THEN \E evaluation \in ChatEvaluations : chat(r, evaluation)
           ELSE chat(r, requests[r].evaluation[1])

\* feedback arrives while a chat request is pending
ChatFeedback ==
    /\ Len(inserted.feedback_history) < MaxChatFeedback
    /\ \E r \in 1..Len(requests) : requests[r].pc # "done"
    /\ submit_feedback("s1", "quality", Some(1), None, NoMetadata)

\* the model with or without a saved baseline, or no model
InitChat ==
    \E process \in {<<TRUE, SavedBaseline>>, <<TRUE, NoBaseline>>,
                     <<FALSE, NoBaseline>>},
       failing \in FailingSets :
        ConstructedFrom(ThresholdsFile(QUALITY_THRESHOLD, RELEVANCE_THRESHOLD),
                        process[1], {"slack", "email"}, failing, {},
                        process[2])
NextChat ==
    \/ AcceptChat
    \/ ChatStep
    \/ ChatFeedback
SpecChat == InitChat /\ [][NextChat]_vars

\* the requests whose handler has returned
Done == {r \in 1..Len(requests) : requests[r].pc = "done"}

Occurrences(xs, x) == Cardinality({i \in 1..Len(xs) : xs[i] = x})

\* the values 0.001-rounding can store for x millionths
NearestThousandths(x) ==
    {v \in {(x \div 1000) * 10, (x \div 1000) * 10 + 10} :
        Abs(v * 100 - x) <= 500}

\* the values of a threshold of 0.6 after k adaptations by 0.95
RECURSIVE LoweredTimes(_)
LoweredTimes(k) ==
    IF k = 0 THEN {QUALITY_THRESHOLD}
    ELSE UNION {NearestThousandths(v * 95) : v \in LoweredTimes(k - 1)}

C28_MonitoringNeverFailsChat ==
    \A r \in Done :
        /\ requests[r].outcome # None
        /\ "raised" \notin DOMAIN requests[r].outcome[1]
        /\ requests[r].outcome[1].response = requests[r].response_text
        /\ call.op = "chat" /\ call.request = r => ret = requests[r].outcome

\* without embedding model and with failing channels, one request was
\* answered with the evaluation unavailable and one with a quality alert
C28_Witness ==
    /\ call.op = "chat"
    /\ ~embedding_model
    /\ channels.failing = {"slack", "email"}
    /\ Done = {1, 2}
    /\ ~requests[1].evaluation[1].evaluations_available
    /\ "alerts" \in DOMAIN requests[2].outcome[1].metadata
    /\ requests[2].outcome[1].metadata.alerts.quality_alert # None
    /\ \E i \in 1..Len(attempts) : attempts[i].failed
    /\ ret = requests[2].outcome

----------------------------------------------------------------------------
(* SpecBaseline: baselines set with and without inputs, one after the      *)
(* other, and texts checked against them                                   *)

BaselineSet ==
    /\ now < MaxBaselineClock
    /\ \E inputs \in {None, Some(<<>>), Some(<<"t1">>)} :
          set_baseline(<<"t0">>, inputs)

BaselineDetectResponse ==
    /\ now < MaxBaselineClock
    /\ \E response_text \in {"t0", "t2"} : detect_response_drift(response_text)

BaselineDetectData ==
    /\ now < MaxBaselineClock
    /\ \E input_text \in {"t1", "t2"} : detect_data_drift(input_text)

InitBaseline == \E model \in BOOLEAN : Constructed(None, model)
NextBaseline ==
    \/ BaselineSet
    \/ BaselineDetectResponse
    \/ BaselineDetectData
SpecBaseline == InitBaseline /\ [][NextBaseline]_vars

\* C31: a set_baseline call that succeeds replaces the whole baseline: made
\* without inputs (absent or an empty list) it leaves no input baseline,
\* also when an earlier call had set one, and detect_data_drift then
\* returns drift_detected = false with the reason "No input baseline set";
\* set_baseline never changes the sticky flags, the rolling windows or the
\* drift history, and nothing else changes the baseline.
C31_SetBaselineReplacesWholeBaseline ==
    [][/\ call'.op = "set_baseline"
            => /\ UNCHANGED <<drift_detected, response_embeddings,
                              input_embeddings, quality_scores, drift_history>>
               /\ embedding_model
                    => /\ baseline'.baseline_embedding # None
                       /\ baseline'.sample_count = Some(Len(call'.responses))
               /\ (embedding_model /\ call'.inputs \in {None, Some(<<>>)})
                    => /\ baseline'.input_baseline_embedding = None
                       /\ baseline'.input_sample_count = None
       /\ call'.op # "set_baseline" => baseline' = baseline
       /\ (call'.op = "detect_data_drift" /\ embedding_model
             /\ baseline.input_baseline_embedding = None)
            => /\ ret' = Some([drift_detected |-> FALSE,
                               reason |-> "No input baseline set"])
               /\ UNCHANGED <<drift_detected, input_embeddings, drift_history>>
      ]_vars

\* an input was checked against an input baseline, a baseline was then set
\* without inputs, and the next input found no input baseline
C31_Witness ==
    /\ call.op = "detect_data_drift"
    /\ ret = Some([drift_detected |-> FALSE,
                   reason |-> "No input baseline set"])
    /\ baseline.baseline_embedding # None
    /\ Len(input_embeddings) > 0

----------------------------------------------------------------------------
(* SpecHistory: the three histories read with any limit as they grow *)

HistoryAlert ==
    /\ Len(inserted.alert_history) < MaxHistory
    /\ check_hallucination_alert(Some(4001))

HistoryDrift ==
    /\ Len(drift_history) < MaxHistory
    /\ detect_response_drift("t2")

HistoryFeedback ==
    /\ Len(inserted.feedback_history) < MaxHistory
    /\ submit_feedback("s1", "helpful", Some(3), None, NoMetadata)

Limits == 0..(MaxHistory + 1)

GetAlertHistory == \E limit \in Limits : get_alert_history(limit)
GetDriftHistory == \E limit \in Limits : get_drift_history(limit)
GetRecentFeedback == \E limit \in Limits : get_recent_feedback(limit)

InitHistory == ConstructedFrom(None, TRUE, {}, {}, {}, SavedBaseline)
NextHistory ==
    \/ HistoryAlert
    \/ HistoryDrift
    \/ HistoryFeedback
    \/ GetAlertHistory
    \/ GetDriftHistory
    \/ GetRecentFeedback
SpecHistory == InitHistory /\ [][NextHistory]_vars

\* the history a read is of
HistoryOf(op) ==
    CASE op = "get_alert_history" -> alert_history
      [] op = "get_drift_history" -> drift_history
      [] OTHER -> feedback_history

\* C32: for every limit >= 0, get_alert_history(limit),
\* get_drift_history(limit) and get_recent_feedback(limit) return exactly
\* the min(limit, n) most recent entries of their history of size n, in
\* insertion order; limit = 0 returns an empty list.
C32_ReadsReturnMostRecent ==
    call.op \in {"get_alert_history", "get_drift_history",
                 "get_recent_feedback"}
      => LET history == HistoryOf(call.op)
             n == Len(history)
             k == IF call.limit < n THEN call.limit ELSE n
         IN  ret = Some(SubSeq(history, n - k + 1, n))

----------------------------------------------------------------------------
(* SpecEvents: drift events recorded past the status's window of recent    *)
(* events, with resets, a new baseline and status reads on the way         *)

EventsBaseline ==
    /\ \/ baseline = NoBaseline
       \/ /\ Len(drift_history) = RECENT_EVENTS
          /\ call.op = "detect_response_drift"
          /\ baseline.baseline_timestamp = Some(0)
    /\ set_baseline(<<"t0">>, None)

EventsDetect ==
    /\ baseline # NoBaseline
    /\ Len(drift_history) < RECENT_EVENTS + EventsExtra
    /\ detect_response_drift("t2")

EventsNoDetect ==
    /\ baseline # NoBaseline
    /\ Len(inserted.response_embeddings) - Len(drift_history) < EventsExtra
    /\ detect_response_drift("t0")

EventsReset ==
    /\ call.op = "detect_response_drift"
    /\ Len(drift_history) >= RECENT_EVENTS
    /\ reset_drift_state

InitEvents == Constructed(None, TRUE)
NextEvents ==
    \/ EventsBaseline
    \/ EventsDetect
    \/ EventsNoDetect
    \/ EventsReset
    \/ GetDriftStatus
SpecEvents == InitEvents /\ [][NextEvents]_vars

\* C33: the drift history holds only events with drift_detected = true and
\* no operation, reset_drift_state and set_baseline included, removes or
\* changes an event; get_drift_status reports total_drift_events as the
\* length of the history and recent_drift_events = min(20, total).
C33_HistoryOnlyDetectionsAndNeverShrinks ==
    [][/\ \A i \in 1..Len(drift_history') : drift_history'[i].drift_detected
       /\ Len(drift_history') >= Len(drift_history)
       /\ SubSeq(drift_history', 1, Len(drift_history)) = drift_history
       /\ call'.op = "get_drift_status"
            => /\ ret'[1].total_drift_events = Len(drift_history')
               /\ ret'[1].recent_drift_events
                    = IF ret'[1].total_drift_events < 20
                      THEN ret'[1].total_drift_events ELSE 20
      ]_vars

\* 21 events, a new baseline after the 20th and a reset after the 21st
C33_Witness ==
    /\ call.op = "get_drift_status"
    /\ ret[1].total_drift_events = 21
    /\ ret[1].recent_drift_events = 20
    /\ ~ret[1].drift_detected.response_drift
    /\ baseline.baseline_timestamp # Some(0)
    /\ Len(inserted.response_embeddings) > Len(drift_history)

----------------------------------------------------------------------------
(* SpecKinds: the four checks of the alert manager in any order, the       *)
(* relevance counter passing its limit on the way                          *)

KindsEvaluations ==
    {[evaluations_available |-> TRUE,
      scores |-> [relevance |-> Some(6999)],
      overall_quality |-> overall_quality] :
        overall_quality \in {None, Some(5999)}}

KindsQuality ==
    /\ Len(inserted.alert_history) < MaxKinds
    /\ Len(relevance_obs) < CONSECUTIVE_FAILURES_REQUIRED + 1
    /\ \E evaluation \in KindsEvaluations : check_quality_alert(evaluation)

KindsDrift ==
    /\ Len(inserted.alert_history) < MaxKinds
    /\ call.op # "check_drift_alert"
    /\ \E response \in {NotDetected, ResponseDetected} :
          check_drift_alert(ResultsOf(Some(response.drift_detected),
                                      Some(response), Some(NotDetected),
                                      None))

KindsToxicity ==
    /\ Len(inserted.alert_history) < MaxKinds
    /\ call.op # "check_toxicity_alert"
    /\ \E score \in {Some(3000), Some(5000)} :
          check_toxicity_alert(Chars(3), score)

KindsHallucination ==
    /\ Len(inserted.alert_history) < MaxKinds
    /\ call.op # "check_hallucination_alert"
    /\ \E score \in {Some(4000), Some(4001)} :
          check_hallucination_alert(score)

InitKinds == Constructed(None, TRUE)
NextKinds ==
    \/ KindsQuality
    \/ KindsDrift
    \/ KindsToxicity
    \/ KindsHallucination
SpecKinds == InitKinds /\ [][NextKinds]_vars

SeverityOf(a) ==
    CASE a.type = "toxicity" -> "critical"
      [] a.type \in {"hallucination", "drift_detected"} -> "high"
      [] a.type = "quality_degradation" /\ "metric" \in DOMAIN a
           /\ a.metric = "relevance" -> "high"
      [] a.type = "quality_degradation" /\ "metric" \in DOMAIN a
           /\ a.metric = "overall_quality" -> "medium"
      [] OTHER -> "none"

\* C34: every alert of the history has one of the four types, the severity
\* of its type (toxicity critical, hallucination and drift_detected high,
\* quality_degradation high for relevance and medium for overall_quality),
\* a timestamp and a message.
C34_AlertsWellFormed ==
    \A i \in 1..Len(alert_history) :
        LET a == alert_history[i]
        IN  /\ {"type", "severity", "timestamp", "message"} \subseteq DOMAIN a
            /\ a.type \in {"quality_degradation", "drift_detected",
                           "toxicity", "hallucination"}
            /\ a.severity \in {"medium", "high", "critical"}
            /\ a.severity = SeverityOf(a)

HasAlert(type, metric) ==
    \E i \in 1..Len(alert_history) :
        /\ alert_history[i].type = type
        /\ metric # None => alert_history[i].metric = metric[1]

\* one alert of each kind in the history
C34_Witness ==
    /\ HasAlert("toxicity", None)
    /\ HasAlert("hallucination", None)
    /\ HasAlert("drift_detected", None)
    /\ HasAlert("quality_degradation", Some("relevance"))
    /\ HasAlert("quality_degradation", Some("overall_quality"))

----------------------------------------------------------------------------
(* detect_all_drifts without a quality score, under SpecAll *)

DetectedIn(results) ==
    (IF SubDetected(results, "response_drift") THEN 1 ELSE 0)
    + (IF SubDetected(results, "data_drift") THEN 1 ELSE 0)

\* C35: detect_all_drifts called without a quality score leaves the
\* quality-score window, the quality_drift flag and the number of quality
\* samples as they were, returns a result without a quality_drift entry,
\* records no event but those of the response and data checks, and reports
\* any_drift_detected from these two checks alone.
C35_NoScoreSkipsQualityCheck ==
    [][call'.op = "detect_all_drifts" /\ call'.quality_score = None
         => /\ quality_scores' = quality_scores
            /\ inserted'.quality_scores = inserted.quality_scores
            /\ drift_detected'.quality_drift = drift_detected.quality_drift
            /\ "quality_drift" \notin DOMAIN ret'[1]
            /\ ret'[1].any_drift_detected = (DetectedIn(ret'[1]) > 0)
            /\ Len(drift_history')
                 = Len(drift_history) + DetectedIn(ret'[1])
      ]_vars

\* a call without a score on a window that holds enough samples for the
\* quality check, after quality drift was detected
C35_Witness ==
    /\ call.op = "detect_all_drifts"
    /\ call.quality_score = None
    /\ drift_detected.quality_drift
    /\ Len(quality_scores) >= MIN_QUALITY_SAMPLES
    /\ ~ret[1].any_drift_detected

----------------------------------------------------------------------------
(* SpecThresholds: feedback adapts the thresholds file while the detector  *)
(* that loaded it keeps checking                                           *)

ThresholdsFeedback ==
    /\ Len(inserted.feedback_history) < MaxAdaptations
    /\ \E rating \in {Some(1), Some(5)} :
          submit_feedback("s1", "quality", rating, None, NoMetadata)

\* scores between 0.95 * 0.6 and 0.6
ThresholdsQuality ==
    /\ Len(inserted.quality_scores) < MIN_QUALITY_SAMPLES + 1
    /\ detect_quality_drift(Some(5900))

ThresholdsResponse ==
    /\ Len(inserted.response_embeddings) < MaxThresholdChecks
    /\ \E response_text \in {"t0", "t2"} : detect_response_drift(response_text)

ThresholdsData ==
    /\ Len(inserted.input_embeddings) < MaxThresholdChecks
    /\ \E input_text \in {"t1", "t2"} : detect_data_drift(input_text)

InitThresholds ==
    \E file \in {None, ThresholdsFile(QUALITY_THRESHOLD, RELEVANCE_THRESHOLD)} :
        ConstructedFrom(file, TRUE, {}, {}, {}, SavedBaseline)
NextThresholds ==
    \/ ThresholdsFeedback
    \/ ThresholdsQuality
    \/ ThresholdsResponse
    \/ ThresholdsData
SpecThresholds == InitThresholds /\ [][NextThresholds]_vars

\* the threshold a check's result names, when it is a determination
ComparedAgainst(op, key, default) ==
    (call'.op = op /\ "threshold" \in DOMAIN ret'[1])
        => ret'[1].threshold = Get(thresholds, key, default)

\* C36: the detector holds the thresholds it loaded at construction: no
\* operation, submit_feedback's write of the thresholds file included,
\* changes them, and every determination of the quality, response and data
\* checks compares against, and reports, the loaded value of its key.
C36_ThresholdsReadOnceAtConstruction ==
    /\ thresholds = _load_thresholds(thresholds_file)
    /\ [][/\ thresholds' = thresholds
          /\ ComparedAgainst("detect_quality_drift", "quality_threshold",
                             DEFAULT_QUALITY_THRESHOLD)
          /\ ComparedAgainst("detect_response_drift",
                             "embedding_distance_threshold",
                             DEFAULT_EMBEDDING_DISTANCE_THRESHOLD)
          /\ ComparedAgainst("detect_data_drift", "drift_threshold",
                             DEFAULT_DRIFT_THRESHOLD)
          /\ (call'.op = "detect_quality_drift"
              /\ "threshold" \in DOMAIN ret'[1])
               => ret'[1].drift_detected
                    = QualityDetected(ret'[1].recent_average,
                                      ret'[1].overall_average,
                                      Get(thresholds, "quality_threshold",
                                          DEFAULT_QUALITY_THRESHOLD))
         ]_vars

\* quality drift detected against the loaded 0.6 on an average of 0.59,
\* which the file's adapted threshold would let pass
C36_Witness ==
    /\ call.op = "detect_quality_drift"
    /\ "threshold" \in DOMAIN ret[1]
    /\ ret[1].drift_detected
    /\ ret[1].threshold = DEFAULT_QUALITY_THRESHOLD
    /\ thresholds_file # None
    /\ thresholds_file[1].quality_threshold * ret[1].recent_average.count
         < ret[1].recent_average.sum
    /\ ~QualityDetected(ret[1].recent_average, ret[1].overall_average,
                        thresholds_file[1].quality_threshold)

====
